---------------------------- MODULE Spec2Model ----------------------------
(***************************************************************************)
(* Model of the acquisition pipeline of src/main.py: the retrying HTTP     *)
(* helper (post_json_with_retry_aiohttp), the booking-log query and token  *)
(* extraction (api_is_bookinglog_aio, process_single_pms), the document    *)
(* fetch (api_get_xml_aio, fetch_single_token), the write queue with its   *)
(* writer workers (writer_worker) and step 2 of run_job_and_reply.         *)
(*                                                                         *)
(* The program is a single asyncio event loop: a coroutine runs without    *)
(* interruption between two awaits that really suspend.  Every action      *)
(* below is one such uninterrupted stretch of code.                        *)
(*                                                                         *)
(* Concurrency limits and the queue capacity are the program's constants   *)
(* scaled down (160 -> 3, 16 -> 2, 10000 -> 2, 8 -> 2) so that the limits  *)
(* are reached with a handful of properties and tokens; so is the cadence  *)
(* of the progress messages (150 -> 2).  Delays are in tenths of a second  *)
(* (0.5 s -> 5).                                                           *)
(***************************************************************************)
EXTENDS Integers, Sequences, FiniteSets, TLC

\* ------------------------------------------------------------------ bounds
NumPms == 2
MaxRows == 2
MaxLabels == 3

\* ------------------------------------------------- program constants (scaled)
PMS_CONCURRENCY == 2
TOKEN_CONCURRENCY == 3
WRITERS == 2
WRITE_QUEUE_MAXSIZE == 2
NOTIFY_EVERY == 2

\* ------------------------------ program constants (delays in tenths of a second)
RETRY_ATTEMPTS == 3
RETRY_BASE_DELAY == 5
RETRY_JITTER == 3
BOOKLOG_RETRY_ATTEMPTS == 5
BOOKLOG_JITTER == 6
BOOKLOG_BASE_DELAY == 8

\* ------------------------------------------------------------------ state
VARIABLES
    all_pms,      \* the sorted, deduplicated property ids of the run
    pms_tasks,    \* the ids the process_single_pms coroutines were created for,
                  \* in the order of the list all_pms
    pms,          \* pms[p]: the process_single_pms coroutine of property p
    fetch,        \* fetch[p]: the fetch_single_token tasks of p, in list order
    sem_pms,      \* free permits of sem_pms
    sem_token,    \* free permits of sem_token
    write_queue,  \* items of write_queue, head first
    unfinished,   \* asyncio.Queue's count of items put and not yet task_done
    writer,       \* writer[w]: "run" | "stopped"
    written,      \* sum of the writer_workers' local counters
    failed_writes,\* writes that raised and were dropped (history)
    files,        \* files[<<p, token>>]: content of xml/<p>/<token>.xml
    orch,         \* position of step 2 of run_job_and_reply
    consumed,     \* properties whose result the as_completed loop has taken
    total_saved,
    processed,
    sentinels_put,\* number of None items put so far
    progress      \* the numbers of the latest progress message, and how many
                  \* messages m.answer was called for so far (history)

pipeVars == <<all_pms, pms_tasks, pms, fetch, sem_pms, sem_token, write_queue, unfinished, writer,
              written, failed_writes, files, orch, consumed,
              total_saved, processed, sentinels_put, progress>>

\* One call of post_json_with_retry_aiohttp.
VARIABLES
    r_cfg,        \* its keyword arguments: attempts, base_delay, jitter
    r_pc,         \* "idle" | "request" | "sleep" | "returned"
    r_i,          \* the loop variable i
    r_delay,      \* the local delay
    r_requests,   \* session.post calls made so far (history)
    r_fails,      \* timeouts, transport errors and 4xx/5xx answers so far (history)
    r_last,       \* outcome of the latest session.post
    r_sleeps,     \* the sleep_s values taken so far, in order (history)
    r_result      \* "pending" | "js" | "text" | "None"

retryVars == <<r_cfg, r_pc, r_i, r_delay, r_requests, r_fails, r_last, r_sleeps, r_result>>

\* One run of run_job_and_reply, phase by phase.
VARIABLES
    run_pc,        \* "idle" | "step1" .. "step4" | "send_error" | "send_error_outer" |
                   \* "ended"
    ended_by,      \* how the run came to its finally clause (history)
    failed,        \* the phase whose exception is being reported
    errors,        \* the phases named in the error messages sent, in order
    run_dir,       \* run_dir exists
    parse_mode,
    numbers_format,
    email_kind,
    labels,        \* the texts list_hotels_from_dropdown returned
    pms_to_name,
    save_dir,      \* save_dir[p]: the documents of xml/<p>/ in sorted order, where the
                   \* directory exists
    reports,       \* the paths the builder returned
    report_writes, \* the report files written, in order
    total_rows,
    total_emails,
    archive,       \* the zip made by create_zip
    delivered      \* answer_document has sent the archive

runVars == <<run_pc, ended_by, failed, errors, run_dir, parse_mode, numbers_format,
             email_kind, labels, pms_to_name, save_dir, reports, report_writes, total_rows,
             total_emails, archive, delivered>>

\* One chat of the bot, update by update.
VARIABLES
    state,         \* the FSM state of the chat: "None" or a state of AuthFlow
    data,          \* the FSM data of the chat: a function of the keys set so far
    handled        \* the last update handled (history): the handler, the message,
                   \* how the login ended, and the run it created, if any

chatVars == <<state, data, handled>>

vars == <<pipeVars, retryVars, runVars, chatVars>>

Workers == 1..WRITERS

\* ------------------------------------------------------- booking-log rows
\* A raw echoToken value: an int, a float (n in tenths), a string, or None
\* (also what row.get returns when the key is missing).
RawInt(n) == [t |-> "int", n |-> n, s |-> <<>>]
RawFloat(tenths) == [t |-> "float", n |-> tenths, s |-> <<>>]
RawStr(s) == [t |-> "str", n |-> 0, s |-> s]
RawNone == [t |-> "none", n |-> 0, s |-> <<>>]

RawTokens ==
    { RawInt(0), RawInt(1), RawInt(2), RawFloat(19),
      RawStr(<<"2", ".", "0">>), RawStr(<<"1", "x">>), RawNone }

DictRow(raw) == [dict |-> TRUE, echoToken |-> raw]
NonDictRow == [dict |-> FALSE, echoToken |-> RawNone]
Rows == { DictRow(r) : r \in RawTokens } \cup { NonDictRow }

RECURSIVE SeqsUpTo(_, _)
SeqsUpTo(S, n) ==
    IF n = 0 THEN { <<>> }
    ELSE LET shorter == SeqsUpTo(S, n - 1)
         IN  shorter \cup { Append(q, x) : q \in { r \in shorter : Len(r) = n - 1 }, x \in S }

\* What post_json_with_retry_aiohttp can hand to api_is_bookinglog_aio:
\* None (retries exhausted), a decoded value that is no list, or a list.
AllBooklogPayloads ==
    { [list |-> FALSE, rows |-> <<>>] }
        \cup { [list |-> TRUE, rows |-> r] : r \in SeqsUpTo(Rows, MaxRows) }

\* Faulty variant: the isinstance(js, list) test is missing, so an answer that
\* is no list is handed on and iterated as if it were rows.
api_is_bookinglog_aioMutNoListTest(js) == IF js.list THEN js.rows ELSE <<NonDictRow>>

\* return js if isinstance(js, list) else []
api_is_bookinglog_aio(js) == IF js.list THEN js.rows ELSE <<>>

Digit(c) ==
    CASE c = "0" -> 0 [] c = "1" -> 1 [] c = "2" -> 2 [] c = "3" -> 3
      [] c = "4" -> 4 [] c = "5" -> 5 [] c = "6" -> 6 [] c = "7" -> 7
      [] c = "8" -> 8 [] c = "9" -> 9 [] OTHER -> -1

RECURSIVE DigitsValue(_)
DigitsValue(s) ==
    IF s = <<>> THEN 0
    ELSE 10 * DigitsValue(SubSeq(s, 1, Len(s) - 1)) + Digit(s[Len(s)])

AllDigits(s) == \A i \in 1..Len(s) : Digit(s[i]) >= 0

\* float(s) for an unsigned decimal literal: digits, optionally a point and
\* more digits, at least one digit.  The result is [ok, int]: int is the
\* integer part, which is all that int(float(s)) keeps.
FloatOfStr(s) ==
    LET dots == { i \in 1..Len(s) : s[i] = "." }
        cut  == IF dots = {} THEN Len(s) + 1 ELSE CHOOSE i \in dots : \A j \in dots : i <= j
        ip   == SubSeq(s, 1, cut - 1)
        fp   == SubSeq(s, cut + 1, Len(s))
    IN  IF AllDigits(ip) /\ AllDigits(fp) /\ Len(ip) + Len(fp) > 0
        THEN [ok |-> TRUE, int |-> DigitsValue(ip)]
        ELSE [ok |-> FALSE, int |-> 0]

Trunc10(n) == IF n >= 0 THEN n \div 10 ELSE -((-n) \div 10)

\* try: token = int(float(token_raw)) except: token = 0
TokenOf(raw) ==
    CASE raw.t = "int"   -> raw.n
      [] raw.t = "float" -> Trunc10(raw.n)
      [] raw.t = "str"   -> LET f == FloatOfStr(raw.s) IN IF f.ok THEN f.int ELSE 0
      [] OTHER           -> 0

\* The loop of process_single_pms over booking_log: row.get raises on a row
\* that is no dict; a token of 0 is dropped; nothing else is filtered.
RowsRaise(rows) == \E i \in 1..Len(rows) : ~rows[i].dict

RECURSIVE Tokens(_)
Tokens(rows) ==
    IF rows = <<>> THEN <<>>
    ELSE LET tok == TokenOf(rows[1].echoToken)
             rest == Tokens(Tail(rows))
         IN  IF tok # 0 THEN <<tok>> \o rest ELSE rest

\* Token values are opaque to the pipeline (they are only compared and used
\* as file names), so the answers are taken up to a renaming of the tokens:
\* the first token an answer yields is 1.
BooklogPayloads ==
    { js \in AllBooklogPayloads :
        \/ RowsRaise(js.rows)
        \/ Tokens(js.rows) = <<>>
        \/ Head(Tokens(js.rows)) = 1 }

\* ---------------------------------------------------- document payloads
\* The body the backend returns to the i-th fetch task of a property: bodies
\* are opaque to acquisition, so they are named after the request.
Doc(i) == <<"doc", i>>
\* xmlData is a string or null (the backend's contract); a bare string answer
\* is the body itself.
Absent == <<"absent", 0>>
Empty == <<"", 0>>

\* What post_json_with_retry_aiohttp can hand to api_get_xml_aio.
XmlPayloads(i) ==
    { [t |-> "None", first |-> "", val |-> Empty], [t |-> "int", first |-> "", val |-> Empty] }
        \cup { [t |-> "dict", first |-> "", val |-> v] : v \in { Doc(i), Empty, Absent } }
        \cup { [t |-> "list", first |-> "empty", val |-> Empty],
               [t |-> "list", first |-> "other", val |-> Empty] }
        \cup { [t |-> "list", first |-> "dict", val |-> v] : v \in { Doc(i), Empty, Absent } }
        \cup { [t |-> "str", first |-> "", val |-> v] : v \in { Doc(i), Empty } }

\* js.get("xmlData") or ""
XmlData(val) == IF val = Absent THEN Empty ELSE val

api_get_xml_aio(js) ==
    CASE js.t = "dict" -> XmlData(js.val)
      [] js.t = "list" /\ js.first = "dict" -> XmlData(js.val)
      [] js.t = "str" -> js.val
      [] OTHER -> Empty

\* ------------------------------------------------------------ queue items
None == [none |-> TRUE, pms |-> 0, token |-> 0, xml |-> Empty]
Item(p, token, xml) == [none |-> FALSE, pms |-> p, token |-> token, xml |-> xml]

Full(q) == Len(q) >= WRITE_QUEUE_MAXSIZE

\* ------------------------------------------------------------------- Init
NoFile == Empty

PipeInit(n) ==
    /\ all_pms = 1..n
    /\ pms_tasks = [i \in 1..n |-> i]
    /\ pms = [p \in all_pms |-> [pc |-> "start", ret |-> 0, exc |-> FALSE]]
    /\ fetch = [p \in all_pms |-> <<>>]
    /\ sem_pms = PMS_CONCURRENCY
    /\ sem_token = TOKEN_CONCURRENCY
    /\ write_queue = <<>>
    /\ unfinished = 0
    /\ writer = [w \in Workers |-> "run"]
    /\ written = 0
    /\ failed_writes = 0
    /\ files = [k \in {} |-> NoFile]
    /\ orch = "collect"
    /\ consumed = {}
    /\ total_saved = 0
    /\ processed = 0
    /\ sentinels_put = 0
    /\ progress = [sent |-> 0, processed |-> 0, saved |-> 0]

\* ------------------------------------------- post_json_with_retry_aiohttp
\* The keyword arguments of the two call sites.
XmlCall == [attempts |-> RETRY_ATTEMPTS, base_delay |-> RETRY_BASE_DELAY,
            jitter |-> RETRY_JITTER]
BooklogCall == [attempts |-> BOOKLOG_RETRY_ATTEMPTS, base_delay |-> BOOKLOG_BASE_DELAY,
                jitter |-> BOOKLOG_JITTER]

\* What one session.post can end in: an answer with a status and a body that
\* decodes as JSON or does not, asyncio.TimeoutError, or another exception.
Statuses == { 200, 204, 302, 404, 500 }
NoOutcome == [kind |-> "none", status |-> 0, json |-> FALSE]
Outcomes ==
    { [kind |-> "response", status |-> st, json |-> j] : st \in Statuses, j \in BOOLEAN }
        \cup { [kind |-> "timeout", status |-> 0, json |-> FALSE],
               [kind |-> "exception", status |-> 0, json |-> FALSE] }

\* if 200 <= status < 400
StatusOk(status) == 200 <= status /\ status < 400

\* Faulty variant: one attempt too many.
AttemptsRemainMutOffByOne(i, attempts) == i <= attempts

\* if i < attempts
AttemptsRemain(i, attempts) == i < attempts

\* Faulty variant: the delay is not doubled.
NextDelayMutConstant(delay) == delay

\* delay *= 2
NextDelay(delay) == delay * 2

RetryIdle ==
    /\ r_cfg = XmlCall
    /\ r_pc = "idle"
    /\ r_i = 0
    /\ r_delay = 0
    /\ r_requests = 0
    /\ r_fails = 0
    /\ r_last = NoOutcome
    /\ r_sleeps = <<>>
    /\ r_result = "pending"

\* delay = base_delay; the loop starts with i = 1.
RetryInit ==
    /\ r_cfg \in { XmlCall, BooklogCall }
    /\ r_pc = "request"
    /\ r_i = 1
    /\ r_delay = r_cfg.base_delay
    /\ r_requests = 0
    /\ r_fails = 0
    /\ r_last = NoOutcome
    /\ r_sleeps = <<>>
    /\ r_result = "pending"

\* The endpoint failed in the sense of the retry policy's tests: no answer,
\* or a 4xx/5xx answer.
EndpointFailed(o) == o.kind # "response" \/ o.status >= 400

\* One pass of the loop body up to its next await: lines 849-887.
RetryAttempt ==
    /\ r_pc = "request"
    /\ \E o \in Outcomes :
          /\ r_last' = o
          /\ r_requests' = r_requests + 1
          /\ r_fails' = IF EndpointFailed(o) THEN r_fails + 1 ELSE r_fails
          /\ IF o.kind = "response" /\ StatusOk(o.status)
             THEN /\ r_pc' = "returned"
                  /\ r_result' = IF o.json THEN "js" ELSE "text"
                  /\ UNCHANGED r_sleeps
             ELSE IF AttemptsRemain(r_i, r_cfg.attempts)
             THEN /\ r_pc' = "sleep"
                  /\ \E jit \in 0..r_cfg.jitter : r_sleeps' = Append(r_sleeps, r_delay + jit)
                  /\ UNCHANGED r_result
             ELSE /\ r_pc' = "returned"
                  /\ r_result' = "None"
                  /\ UNCHANGED r_sleeps
    /\ UNCHANGED <<r_cfg, r_i, r_delay, pipeVars, runVars, chatVars>>

\* asyncio.sleep(sleep_s) is over: delay *= 2, next i.
RetryWake ==
    /\ r_pc = "sleep"
    /\ r_pc' = "request"
    /\ r_delay' = NextDelay(r_delay)
    /\ r_i' = r_i + 1
    /\ UNCHANGED <<r_cfg, r_requests, r_fails, r_last, r_sleeps, r_result, pipeVars, runVars, chatVars>>


\* ---------------------------------------------------------------- strings
\* The i-th character of s, as a string of length one.
Char(s, i) == SubSeq(s, i, i)

\* The lower-case letter of each upper-case letter.
LowerOf ==
    LET upper == "ABCDEFGHIJKLMNOPQRSTUVWXYZ"
        lower == "abcdefghijklmnopqrstuvwxyz"
    IN  [c \in { Char(upper, i) : i \in 1..Len(upper) } |->
            Char(lower, CHOOSE i \in 1..Len(upper) : Char(upper, i) = c)]

\* s.lower()
RECURSIVE Lower(_)
Lower(s) ==
    IF s = "" THEN ""
    ELSE (IF Head(s) \in DOMAIN LowerOf THEN LowerOf[Head(s)] ELSE Head(s)) \o Lower(Tail(s))

Whitespace == { " ", "\t", "\n", "\r" }

\* s.strip()
RECURSIVE Strip(_)
Strip(s) ==
    IF s = "" THEN s
    ELSE IF Head(s) \in Whitespace THEN Strip(Tail(s))
    ELSE IF Char(s, Len(s)) \in Whitespace THEN Strip(SubSeq(s, 1, Len(s) - 1))
    ELSE s

\* s.endswith(suffix)
EndsWith(s, suffix) ==
    /\ Len(s) >= Len(suffix)
    /\ SubSeq(s, Len(s) - Len(suffix) + 1, Len(s)) = suffix

\* sub in s
Contains(s, sub) ==
    \E i \in 0..(Len(s) - Len(sub)) : SubSeq(s, i + 1, i + Len(sub)) = sub

\* SAFE_CHARS = re.compile(r'[\\/*?:"<>|]+')
SAFE_CHARS == { "\\", "/", "*", "?", ":", "\"", "<", ">", "|" }

\* SAFE_CHARS.sub("_", s): every maximal run of such characters becomes one "_".
RECURSIVE SubSafe(_, _)
SubSafe(s, in_run) ==
    IF s = "" THEN ""
    ELSE IF Head(s) \in SAFE_CHARS
    THEN (IF in_run THEN "" ELSE "_") \o SubSafe(Tail(s), TRUE)
    ELSE Head(s) \o SubSafe(Tail(s), FALSE)

\* SAFE_CHARS.sub("_", s).strip() or "file"
safe_filename(s) ==
    LET t == Strip(SubSafe(s, FALSE))
    IN  IF t = "" THEN "file" ELSE t

\* Faulty variant: the relay domain is missing from the exclusion list.
EXCLUDE_EMAIL_DOMAINSMutNoRelay ==
    { "@m.expediapartnercentral.com", "@agoda-messaging.com",
      "@makemytrip.com", "@cleartrip.com", "@easemytrip.com", "@hotelpartner@ixigo.com",
      "@travelplusapp.com", "@agoda.com", "@tbo.com", "@ixigo.com", "@grnconnect.com",
      "@galaxytravellers.com", "@guest.trip.com", "@riya.travel" }

EXCLUDE_EMAIL_DOMAINS ==
    { "@m.expediapartnercentral.com", "@agoda-messaging.com", "@guest.booking.com",
      "@makemytrip.com", "@cleartrip.com", "@easemytrip.com", "@hotelpartner@ixigo.com",
      "@travelplusapp.com", "@agoda.com", "@tbo.com", "@ixigo.com", "@grnconnect.com",
      "@galaxytravellers.com", "@guest.trip.com", "@riya.travel" }

\* ------------------------------------------------------- persisted documents
\* The text of a persisted document, by what the report builders read from
\* it: whether ET.fromstring accepts it ("ok"), accepts it once the text
\* before the first "<" is removed ("prefix"), or only once that is done twice
\* ("prefix2": the text left by one removal is still not well-formed); its
\* Source/BookingChannel/CompanyName element; and the fields at the fixed
\* element paths, as they stand in the text.  An element or attribute that
\* is absent reads as "".
NoCompany == [present |-> FALSE, Code |-> "", text |-> ""]
Company(code, text) == [present |-> TRUE, Code |-> code, text |-> text]

XmlDoc(parse, company, start, given, phone, email, total, currency) ==
    [parse |-> parse, company |-> company, start |-> start, end |-> start,
     given |-> given, surname |-> given, phone |-> phone, email |-> email,
     total |-> total, currency |-> currency]

DocKinds ==
    { XmlDoc("ok", Company("19", ""), "2025-09-12", "Ann", "+100", "ann@mail.org", "120", "EUR"),
      XmlDoc("prefix", Company("", " Booking.COM "), "", "", "", " G2@Guest.Booking.Com", "", ""),
      XmlDoc("ok", Company(" 19 ", "Booking"), "", "", "", "", "", ""),
      XmlDoc("ok", NoCompany, "2025-09-13", "Bob", "+200", "bob@mail.org", "", ""),
      XmlDoc("prefix2", Company("19", ""), "2025-09-14", "Zed", "+300", "zed@mail.org", "50", "EUR"),
      XmlDoc("ok", Company("20", "Expedia"), "", "Eve", "", "E@Guest.Booking.com", "80", "USD"),
      XmlDoc("ok", Company("19", ""), "2025-09-15", "Cyd", "+400", " ", "", "") }

\* Faulty variant: the prefix is removed until the text parses.
HasRootMutRepeat(doc) == doc.parse \in { "ok", "prefix", "prefix2" }

\* ET.fromstring(xml_text) returns a root, or does so once
\* re.sub(r'^\s*[^<]+<', '<', xml_text, count=1) has removed the prefix.
HasRoot(doc) ==
    LET stripped == CASE doc.parse = "prefix" -> "ok"
                      [] doc.parse = "prefix2" -> "prefix"
                      [] OTHER -> doc.parse
    IN  doc.parse = "ok" \/ stripped = "ok"

\* Faulty variant: the company name is compared as it is written.
is_booking_com_xmlMutCase(doc) ==
    /\ HasRoot(doc)
    /\ doc.company.present
    /\ \/ Strip(doc.company.Code) = "19"
       \/ Contains(Strip(doc.company.text), "booking.com")

is_booking_com_xml(doc) ==
    /\ HasRoot(doc)
    /\ doc.company.present
    /\ \/ Strip(doc.company.Code) = "19"
       \/ Contains(Lower(Strip(doc.company.text)), "booking.com")

\* The dict parse_booking_info returns; {} reads as "" under every key.
parse_booking_info(doc) ==
    IF HasRoot(doc)
    THEN [start |-> Strip(doc.start), end |-> Strip(doc.end), given |-> Strip(doc.given),
          surname |-> Strip(doc.surname), phone |-> Strip(doc.phone),
          email |-> Strip(doc.email), total |-> Strip(doc.total),
          currency |-> Strip(doc.currency)]
    ELSE [start |-> "", end |-> "", given |-> "", surname |-> "", phone |-> "",
          email |-> "", total |-> "", currency |-> ""]

\* any((start, end, given, surname, phone, email, total))
AnyField(row) ==
    \/ row.start # "" \/ row.end # "" \/ row.given # "" \/ row.surname # ""
    \/ row.phone # "" \/ row.email # "" \/ row.total # ""

\* The dict _kadir_row_from_xml returns, or None.  The documents read here
\* carry no ChainCode attribute.
NoKadirRow ==
    [none |-> TRUE, GivenName |-> "", Surname |-> "", TimeSpan_start |-> "",
     TimeSpan_end |-> "", Total_inc_currency |-> "", Email |-> "", Telephone |-> "",
     BasicPropertyInfo_ChainCode |-> "", Address |-> ""]

kadir_row_from_xml(doc) ==
    IF ~is_booking_com_xml(doc) \/ ~HasRoot(doc) THEN NoKadirRow
    ELSE [none |-> FALSE, GivenName |-> Strip(doc.given), Surname |-> Strip(doc.surname),
          TimeSpan_start |-> doc.start, TimeSpan_end |-> doc.end,
          Total_inc_currency |-> Strip(Strip(doc.total) \o " " \o Strip(doc.currency)),
          Email |-> Strip(doc.email), Telephone |-> Strip(doc.phone),
          BasicPropertyInfo_ChainCode |-> "", Address |-> "Your reservation not confirmed"]

\* ------------------------------------------------------------ report files
\* One call of a write_* function: the property it is for (0 for the merged
\* file), the path below reports/ and the lines written.
ReportWrite(p, path, lines) == [pms |-> p, path |-> path, lines |-> lines]

Price(row) == Strip(row.total \o (IF row.currency # "" THEN " " \o row.currency ELSE ""))
FullName(row) == Strip(Strip(row.given) \o " " \o Strip(row.surname))

\* f"{hotel_name}|{arrival}|{depart}|{name}|{phone}|{price}"
HotelLine(hotel_name, r) ==
    hotel_name \o "|" \o r.start \o "|" \o r.end \o "|" \o FullName(r)
        \o "|" \o r.phone \o "|" \o Price(r)

write_hotel_txt(p, hotel_name, rows) ==
    ReportWrite(p, safe_filename(hotel_name) \o ".txt",
                [i \in 1..Len(rows) |-> HotelLine(hotel_name, rows[i])])

\* f"{hotel_name}|{arrival}|{depart}|{name}|{email}|{phone}|{price}"
EmailLine(hotel_name, r) ==
    hotel_name \o "|" \o Strip(r.start) \o "|" \o Strip(r.end) \o "|" \o FullName(r)
        \o "|" \o Strip(r.email) \o "|" \o Strip(r.phone) \o "|" \o Price(r)

write_hotel_emails_txt(p, hotel_name, rows) ==
    ReportWrite(p, safe_filename(hotel_name) \o ".txt",
                [i \in 1..Len(rows) |-> EmailLine(hotel_name, rows[i])])

\* The rows a builder keeps of a property's documents, in the order of
\* sorted(pms_dir.glob("*.xml")).
RowsOf(docs) == [i \in 1..Len(docs) |-> parse_booking_info(docs[i])]

\* Faulty variant: the is_booking_com_xml test is missing.
HotelKeepsMutNoClassify(doc) == AnyField(parse_booking_info(doc))

\* Lines 517-522: the document gives a row of the phone report.
HotelKeeps(doc) == is_booking_com_xml(doc) /\ AnyField(parse_booking_info(doc))

\* Faulty variant: the email is compared as it was parsed.
EmailKeepsMutNoLower(kind, row) ==
    LET em == Strip(row.email)
    IN  /\ em # ""
        /\ IF kind = "booking"
           THEN EndsWith(em, "@guest.booking.com")
           ELSE ~\E dom \in EXCLUDE_EMAIL_DOMAINS : EndsWith(em, dom)

\* Lines 562-573: the row is one of the email report.
EmailKeeps(kind, row) ==
    LET em == Lower(Strip(row.email))
    IN  /\ em # ""
        /\ IF kind = "booking"
           THEN EndsWith(em, "@guest.booking.com")
           ELSE ~\E dom \in EXCLUDE_EMAIL_DOMAINS : EndsWith(em, dom)

\* Faulty variant: every row is counted.
CountEmailsMutAll(rows) == Len(rows)

\* sum(1 for r in rows if (r.get("email") or "").strip())
CountEmails(rows) == Cardinality({ i \in 1..Len(rows) : Strip(rows[i].email) # "" })

NoReports == [reports |-> <<>>, writes |-> <<>>, total_rows |-> 0, total_emails |-> 0]

\* The loop of build_hotel_reports over the properties p, p + 1, ...
RECURSIVE build_hotel_reports(_, _, _)
build_hotel_reports(names, x, p) ==
    IF p \notin DOMAIN names THEN NoReports
    ELSE LET rest == build_hotel_reports(names, x, p + 1)
             rows == IF p \in DOMAIN x THEN RowsOf(SelectSeq(x[p], HotelKeeps)) ELSE <<>>
             out  == write_hotel_txt(p, names[p], rows)
         IN  IF rows = <<>> THEN rest
             ELSE [reports |-> <<out.path>> \o rest.reports,
                   writes |-> <<out>> \o rest.writes,
                   total_rows |-> Len(rows) + rest.total_rows,
                   total_emails |-> CountEmails(rows) + rest.total_emails]

\* The loop of build_email_reports over the properties p, p + 1, ...
RECURSIVE build_email_reports(_, _, _, _)
build_email_reports(names, x, kind, p) ==
    IF p \notin DOMAIN names THEN NoReports
    ELSE LET rest == build_email_reports(names, x, kind, p + 1)
             rows == IF p \in DOMAIN x
                     THEN SelectSeq(RowsOf(x[p]), LAMBDA r : EmailKeeps(kind, r))
                     ELSE <<>>
             out  == write_hotel_emails_txt(p, names[p], rows)
         IN  IF rows = <<>> THEN rest
             ELSE [reports |-> <<out.path>> \o rest.reports,
                   writes |-> <<out>> \o rest.writes,
                   total_rows |-> Len(rows) + rest.total_rows,
                   total_emails |-> Len(rows) + rest.total_emails]

\* The rows build_kadir_merged writes for the properties p, p + 1, ...
RECURSIVE KadirRows(_, _, _)
KadirRows(names, x, p) ==
    IF p \notin DOMAIN names THEN <<>>
    ELSE (IF p \in DOMAIN x
          THEN SelectSeq([i \in 1..Len(x[p]) |-> kadir_row_from_xml(x[p][i])],
                         LAMBDA row : ~row.none)
          ELSE <<>>) \o KadirRows(names, x, p + 1)

\* The header is written, then one numbered line per row; [out_path] is
\* returned whatever the number of rows.
build_kadir_merged(names, x) ==
    LET rows == KadirRows(names, x, 1)
        headers ==
            <<"Nomer", "GivenName", "Surname", "TimeSpan start", "TimeSpan End",
              "Total AmountIncludingMarkup + CurrencyCode", "Email",
              "Telephone PhoneNumber", "BasicPropertyInfo ChainCode", "Address">>
        out  == ReportWrite(0, "kadir_all.csv",
                            <<headers>> \o [i \in 1..Len(rows) |-> <<i, rows[i]>>])
    IN  [reports |-> <<out.path>>, writes |-> <<out>>,
         total_rows |-> Len(rows), total_emails |-> 0]

\* -------------------------------------------------------- run_job_and_reply
\* The display names a label can give property p, as the split and strip of
\* line 1201 leave them: "H" for any property, and two names that differ only
\* in characters of SAFE_CHARS.
Names(p) == IF p = 1 THEN { "A/B", "H" } ELSE { "A?*B", "H" }

\* What the conversation hands to run_job_and_reply: select_numbers_fmt gives
\* parse_mode "numbers" with a format, select_email_kind gives "emails" with
\* a kind (numbers_format is then its default).
Modes ==
    { [parse_mode |-> "numbers", numbers_format |-> f, email_kind |-> "None"] :
          f \in { "word", "kadir" } }
        \cup { [parse_mode |-> "emails", numbers_format |-> "word", email_kind |-> k] :
                   k \in { "booking", "other" } }

NoXml == [p \in {} |-> <<>>]

RunFresh ==
    /\ ended_by = "running"
    /\ failed = "none"
    /\ errors = <<>>
    /\ labels = <<>>
    /\ pms_to_name = [p \in {} |-> ""]
    /\ save_dir = NoXml
    /\ reports = <<>>
    /\ report_writes = <<>>
    /\ total_rows = 0
    /\ total_emails = 0
    /\ archive = [made |-> FALSE, names |-> <<>>]
    /\ delivered = FALSE

\* No run has been started.
RunIdle ==
    /\ run_pc = "idle"
    /\ run_dir = FALSE
    /\ parse_mode = "numbers" /\ numbers_format = "word" /\ email_kind = "None"
    /\ RunFresh

\* start_job_from_state has made run_dir and created the task.
RunInit ==
    /\ run_pc = "step1"
    /\ run_dir = TRUE
    /\ \E m \in Modes :
          /\ parse_mode = m.parse_mode
          /\ numbers_format = m.numbers_format
          /\ email_kind = m.email_kind
    /\ RunFresh

\* dp = Dispatcher(): the chat has no state and no data, no update was handled.
ChatInit ==
    /\ state = "None"
    /\ data = [k \in {} |-> ""]
    /\ handled = [handler |-> "none", m |-> [none |-> TRUE, text |-> ""],
                  login |-> "none", job |-> <<>>]

Init == PipeInit(NumPms) /\ RetryIdle /\ RunIdle /\ ChatInit

\* One property more than PMS_CONCURRENCY admits at a time.
InitWide == PipeInit(NumPms + 1) /\ RetryIdle /\ RunIdle /\ ChatInit

InitRetry == PipeInit(NumPms) /\ RetryInit /\ RunIdle /\ ChatInit

InitRun == PipeInit(NumPms) /\ RetryIdle /\ RunInit /\ ChatInit

\* ------------------------------------------------------ process_single_pms
Task(token) == [token |-> token, pc |-> "start", xml |-> Empty, res |-> FALSE]

\* Faulty variant: a return inside the block keeps the permit of sem_pms.
PmsReturnMutKeepsPermit(p, ret, exc) ==
    /\ pms' = [pms EXCEPT ![p] = [pc |-> "done", ret |-> ret, exc |-> exc]]
    /\ sem_pms' = sem_pms

\* return <ret> inside "async with sem_pms": the permit goes back.
PmsReturn(p, ret, exc) ==
    /\ pms' = [pms EXCEPT ![p] = [pc |-> "done", ret |-> ret, exc |-> exc]]
    /\ sem_pms' = sem_pms + 1

\* Faulty variant: the property pipeline starts without taking a permit.
PmsStartMutNoSem(p) ==
    /\ pms[p].pc = "start"
    /\ sem_pms' = sem_pms - 1
    /\ pms' = [pms EXCEPT ![p].pc = "booklog"]
    /\ UNCHANGED <<chatVars, runVars, retryVars, progress, all_pms, pms_tasks, fetch, sem_token, write_queue, unfinished,
                   writer, written, failed_writes, files, orch, consumed,
                   total_saved, processed, sentinels_put>>

\* Faulty variant: the booking-log request takes a permit of sem_token.
PmsStartMutFetchSem(p) ==
    /\ pms[p].pc = "start"
    /\ sem_token > 0
    /\ sem_token' = sem_token - 1
    /\ pms' = [pms EXCEPT ![p].pc = "booklog"]
    /\ UNCHANGED <<chatVars, runVars, retryVars, progress, all_pms, pms_tasks, fetch, sem_pms, write_queue, unfinished,
                   writer, written, failed_writes, files, orch, consumed,
                   total_saved, processed, sentinels_put>>

\* async with sem_pms: the coroutine goes on to the booking-log request.
PmsStart(p) ==
    /\ pms[p].pc = "start"
    /\ sem_pms > 0
    /\ sem_pms' = sem_pms - 1
    /\ pms' = [pms EXCEPT ![p].pc = "booklog"]
    /\ UNCHANGED <<chatVars, runVars, retryVars, progress, all_pms, pms_tasks, fetch, sem_token, write_queue, unfinished, writer, written,
                   failed_writes, files, orch, consumed, total_saved,
                   processed, sentinels_put>>

\* Faulty variant: the exception leaves process_single_pms and ends step 2.
PmsRaiseMutPropagate(p) ==
    /\ PmsReturn(p, 0, TRUE)
    /\ orch' = "failed"
    /\ UNCHANGED fetch

\* except Exception: log, return 0.
PmsRaise(p) ==
    /\ PmsReturn(p, 0, TRUE)
    /\ UNCHANGED <<fetch, orch>>

\* tasks = [fetch_single_token(...) for token in tokens]; gather schedules them.
PmsSpawn(p, tokens) ==
    /\ fetch' = [fetch EXCEPT ![p] = [i \in 1..Len(tokens) |-> Task(tokens[i])]]
    /\ pms' = [pms EXCEPT ![p].pc = "gather"]
    /\ UNCHANGED <<sem_pms, orch>>

\* Lines 999-1023 once api_is_bookinglog_aio has been handed js.
PmsBooklogOn(p, js) ==
    /\ pms[p].pc = "booklog"
    /\ LET booking_log == api_is_bookinglog_aio(js)
       IN  IF booking_log = <<>>
           THEN PmsReturn(p, 0, FALSE) /\ UNCHANGED <<fetch, orch>>
           ELSE IF RowsRaise(booking_log)
           THEN PmsRaise(p)
           ELSE IF Tokens(booking_log) = <<>>
           THEN PmsReturn(p, 0, FALSE) /\ UNCHANGED <<fetch, orch>>
           ELSE PmsSpawn(p, Tokens(booking_log))
    /\ UNCHANGED <<chatVars, runVars, retryVars, progress, all_pms, pms_tasks, sem_token, write_queue, unfinished, writer, written,
                   failed_writes, files, consumed, total_saved,
                   processed, sentinels_put>>

\* The booking-log answer arrives.
PmsBooklog(p) == \E js \in BooklogPayloads : PmsBooklogOn(p, js)

\* Faulty variant: every task of the property is counted as saved.
SavedMutCountAll(p) == Len(fetch[p])

\* sum(1 for r in results if isinstance(r, bool) and r)
Saved(p) == Cardinality({ i \in 1..Len(fetch[p]) : fetch[p][i].res })

\* results = await gather(*tasks); saved = number of True results; return saved.
PmsGathered(p) ==
    /\ pms[p].pc = "gather"
    /\ \A i \in 1..Len(fetch[p]) : fetch[p][i].pc = "done"
    /\ PmsReturn(p, Saved(p), FALSE)
    /\ fetch' = [fetch EXCEPT ![p] = <<>>]
    /\ UNCHANGED <<chatVars, runVars, retryVars, progress, all_pms, pms_tasks, sem_token, write_queue, unfinished, writer, written,
                   failed_writes, files, orch, consumed, total_saved,
                   processed, sentinels_put>>

\* ------------------------------------------------------ fetch_single_token
\* Faulty variant: the request is sent without taking a permit.
FetchStartMutNoSem(p, i) ==
    /\ pms[p].pc = "gather"
    /\ i \in 1..Len(fetch[p])
    /\ fetch[p][i].pc = "start"
    /\ sem_token' = sem_token - 1
    /\ fetch' = [fetch EXCEPT ![p][i].pc = "req"]
    /\ UNCHANGED <<chatVars, runVars, retryVars, progress, all_pms, pms_tasks, pms, sem_pms, write_queue, unfinished,
                   writer, written, failed_writes, files, orch, consumed,
                   total_saved, processed, sentinels_put>>

\* async with sem_token: the task goes on to the document request.
FetchStart(p, i) ==
    /\ pms[p].pc = "gather"
    /\ i \in 1..Len(fetch[p])
    /\ fetch[p][i].pc = "start"
    /\ sem_token > 0
    /\ sem_token' = sem_token - 1
    /\ fetch' = [fetch EXCEPT ![p][i].pc = "req"]
    /\ UNCHANGED <<chatVars, runVars, retryVars, progress, all_pms, pms_tasks, pms, sem_pms, write_queue, unfinished, writer, written,
                   failed_writes, files, orch, consumed, total_saved,
                   processed, sentinels_put>>

\* Faulty variant: the task ends and its permit is not given back.
FetchReturnMutKeepsPermit(p, i, xml, res) ==
    /\ fetch' = [fetch EXCEPT ![p][i] = [@ EXCEPT !.pc = "done", !.xml = xml, !.res = res]]
    /\ sem_token' = sem_token

\* The task ends with result res and leaves "async with sem_token".
FetchReturn(p, i, xml, res) ==
    /\ fetch' = [fetch EXCEPT ![p][i] = [@ EXCEPT !.pc = "done", !.xml = xml, !.res = res]]
    /\ sem_token' = sem_token + 1

\* write_queue.put((pms_dir, token, xml)) going through; return True.
FetchEnqueue(p, i, xml) ==
    /\ write_queue' = Append(write_queue, Item(p, fetch[p][i].token, xml))
    /\ unfinished' = unfinished + 1
    /\ FetchReturn(p, i, xml, TRUE)

\* Faulty variant: a full queue makes the producer drop the document.
FetchHandleMutDrop(p, i, xml) ==
    IF xml = Empty
    THEN /\ FetchReturn(p, i, xml, FALSE)
         /\ UNCHANGED <<write_queue, unfinished>>
    ELSE IF Full(write_queue)
    THEN /\ FetchReturn(p, i, xml, TRUE)
         /\ UNCHANGED <<write_queue, unfinished>>
    ELSE FetchEnqueue(p, i, xml)

\* Faulty variant: the "if not xml" test is missing.
FetchHandleMutNoEmptyCheck(p, i, xml) ==
    IF Full(write_queue)
    THEN /\ fetch' = [fetch EXCEPT ![p][i] = [@ EXCEPT !.pc = "put", !.xml = xml]]
         /\ UNCHANGED <<write_queue, unfinished, sem_token>>
    ELSE FetchEnqueue(p, i, xml)

\* Lines 980-984 once api_get_xml_aio has returned xml.
FetchHandle(p, i, xml) ==
    IF xml = Empty
    THEN /\ FetchReturn(p, i, xml, FALSE)
         /\ UNCHANGED <<write_queue, unfinished>>
    ELSE IF Full(write_queue)
    THEN /\ fetch' = [fetch EXCEPT ![p][i] = [@ EXCEPT !.pc = "put", !.xml = xml]]
         /\ UNCHANGED <<write_queue, unfinished, sem_token>>
    ELSE FetchEnqueue(p, i, xml)

\* The document answer arrives.
FetchResponse(p, i) ==
    /\ i \in 1..Len(fetch[p])
    /\ fetch[p][i].pc = "req"
    /\ \E js \in XmlPayloads(i) : FetchHandle(p, i, api_get_xml_aio(js))
    /\ UNCHANGED <<chatVars, runVars, retryVars, progress, all_pms, pms_tasks, pms, sem_pms, writer, written, failed_writes, files, orch,
                   consumed, total_saved, processed, sentinels_put>>

\* A put() that was suspended on the full queue goes through.
FetchPut(p, i) ==
    /\ i \in 1..Len(fetch[p])
    /\ fetch[p][i].pc = "put"
    /\ ~Full(write_queue)
    /\ FetchEnqueue(p, i, fetch[p][i].xml)
    /\ UNCHANGED <<chatVars, runVars, retryVars, progress, all_pms, pms_tasks, pms, sem_pms, writer, written, failed_writes, files, orch, consumed, total_saved, processed, sentinels_put>>

\* ------------------------------------------------------------ writer_worker
\* Faulty variant: the worker reads the None and leaves it in the queue.
WriterStopMutLeavesItem(w) ==
    /\ writer[w] = "run"
    /\ write_queue # <<>>
    /\ Head(write_queue).none
    /\ unfinished' = unfinished - 1
    /\ writer' = [writer EXCEPT ![w] = "stopped"]
    /\ UNCHANGED <<chatVars, runVars, retryVars, progress, all_pms, pms_tasks, pms, fetch, sem_pms,
                   sem_token, write_queue, written, failed_writes, files, orch, consumed,
                   total_saved, processed, sentinels_put>>

\* item is None: task_done(), break.
WriterStop(w) ==
    /\ writer[w] = "run"
    /\ write_queue # <<>>
    /\ Head(write_queue).none
    /\ write_queue' = Tail(write_queue)
    /\ unfinished' = unfinished - 1
    /\ writer' = [writer EXCEPT ![w] = "stopped"]
    /\ UNCHANGED <<chatVars, runVars, retryVars, progress, all_pms, pms_tasks, pms, fetch, sem_pms, sem_token, written, failed_writes,
                   files, orch, consumed, total_saved, processed,
                   sentinels_put>>

\* Faulty variant: a file that exists is not overwritten.
WriterWriteMutKeepFirst(w) ==
    /\ writer[w] = "run"
    /\ write_queue # <<>>
    /\ LET item == Head(write_queue)
       IN  /\ ~item.none
           /\ files' = files @@ (<<item.pms, item.token>> :> item.xml)
    /\ write_queue' = Tail(write_queue)
    /\ unfinished' = unfinished - 1
    /\ written' = written + 1
    /\ UNCHANGED <<chatVars, runVars, retryVars, progress, all_pms, pms_tasks, pms, fetch, sem_pms, sem_token, writer, failed_writes,
                   orch, consumed, total_saved, processed,
                   sentinels_put>>

\* mkdir, write_text, written += 1, finally task_done().
WriterWrite(w) ==
    /\ writer[w] = "run"
    /\ write_queue # <<>>
    /\ LET item == Head(write_queue)
       IN  /\ ~item.none
           /\ files' = (<<item.pms, item.token>> :> item.xml) @@ files
    /\ write_queue' = Tail(write_queue)
    /\ unfinished' = unfinished - 1
    /\ written' = written + 1
    /\ UNCHANGED <<chatVars, runVars, retryVars, progress, all_pms, pms_tasks, pms, fetch, sem_pms, sem_token, writer, failed_writes,
                   orch, consumed, total_saved, processed,
                   sentinels_put>>

\* Faulty variant: the exception ends the worker before task_done().
WriterWriteFailsMutDies(w) ==
    /\ writer[w] = "run"
    /\ write_queue # <<>>
    /\ ~Head(write_queue).none
    /\ write_queue' = Tail(write_queue)
    /\ failed_writes' = failed_writes + 1
    /\ writer' = [writer EXCEPT ![w] = "stopped"]
    /\ UNCHANGED <<chatVars, runVars, retryVars, progress, all_pms, pms_tasks, pms, fetch, sem_pms, sem_token, unfinished, written,
                   files, orch, consumed, total_saved, processed, sentinels_put>>

\* mkdir or write_text raises: except logs, finally task_done().
WriterWriteFails(w) ==
    /\ writer[w] = "run"
    /\ write_queue # <<>>
    /\ ~Head(write_queue).none
    /\ write_queue' = Tail(write_queue)
    /\ unfinished' = unfinished - 1
    /\ failed_writes' = failed_writes + 1
    /\ UNCHANGED <<chatVars, runVars, retryVars, progress, all_pms, pms_tasks, pms, fetch, sem_pms, sem_token, writer, written, files, orch, consumed, total_saved, processed, sentinels_put>>

\* ------------------------------------------------ run_job_and_reply, step 2
\* Faulty variant: the writers are shut down after the first result.
AfterCollectMutEarly(n) == "sentinels"

\* The as_completed loop is over once every pipeline's result is taken.
AfterCollect(n) == IF n = Cardinality(all_pms) THEN "sentinels" ELSE "collect"

\* Faulty variant: a message after every property.
ProgressDueMutEach(n) == TRUE

\* if (processed % NOTIFY_EVERY == 0) or (processed == total_pms)
ProgressDue(n) == n % NOTIFY_EVERY = 0 \/ n = Cardinality(all_pms)

\* Faulty variant: the latest result replaces the running total.
OrchCollectMutNoSum(p) ==
    /\ orch = "collect"
    /\ pms[p].pc = "done"
    /\ p \notin consumed
    /\ consumed' = consumed \cup {p}
    /\ total_saved' = pms[p].ret
    /\ processed' = processed + 1
    /\ progress' = IF ProgressDue(processed + 1)
                   THEN [sent |-> progress.sent + 1, processed |-> processed + 1,
                         saved |-> pms[p].ret]
                   ELSE progress
    /\ orch' = AfterCollect(processed + 1)
    /\ UNCHANGED <<chatVars, runVars, retryVars, all_pms, pms_tasks, pms, fetch, sem_pms, sem_token, write_queue, unfinished,
                   writer, written, failed_writes, files,
                   sentinels_put>>

\* saved = await coro; total_saved += saved; processed += 1; the progress
\* message when it is due (an exception of m.answer is swallowed).
OrchCollect(p) ==
    /\ orch = "collect"
    /\ pms[p].pc = "done"
    /\ p \notin consumed
    /\ consumed' = consumed \cup {p}
    /\ total_saved' = total_saved + pms[p].ret
    /\ processed' = processed + 1
    /\ progress' = IF ProgressDue(processed + 1)
                   THEN [sent |-> progress.sent + 1, processed |-> processed + 1,
                         saved |-> total_saved + pms[p].ret]
                   ELSE progress
    /\ orch' = AfterCollect(processed + 1)
    /\ UNCHANGED <<chatVars, runVars, retryVars, all_pms, pms_tasks, pms, fetch, sem_pms, sem_token, write_queue, unfinished,
                   writer, written, failed_writes, files,
                   sentinels_put>>

\* Faulty variant: the drain is not awaited.
AfterSentinelsMutNoDrain == "step3"

\* After the last None is put: await write_queue.join().
AfterSentinels == "join"

\* for _ in range(WRITERS): await write_queue.put(None)
OrchPutSentinel ==
    /\ orch = "sentinels"
    /\ ~Full(write_queue)
    /\ write_queue' = Append(write_queue, None)
    /\ unfinished' = unfinished + 1
    /\ sentinels_put' = sentinels_put + 1
    /\ orch' = IF sentinels_put + 1 = WRITERS THEN AfterSentinels ELSE "sentinels"
    /\ UNCHANGED <<chatVars, runVars, retryVars, progress, all_pms, pms_tasks, pms, fetch, sem_pms, sem_token, writer, written,
                   failed_writes, files, consumed, total_saved,
                   processed>>

\* await write_queue.join()
OrchJoin ==
    /\ orch = "join"
    /\ unfinished = 0
    /\ orch' = "gather"
    /\ UNCHANGED <<chatVars, runVars, retryVars, progress, all_pms, pms_tasks, pms, fetch, sem_pms, sem_token, write_queue, unfinished,
                   writer, written, failed_writes, files, consumed,
                   total_saved, processed, sentinels_put>>

\* await asyncio.gather(*writer_tasks); step 3 follows.
OrchGather ==
    /\ orch = "gather"
    /\ \A w \in Workers : writer[w] = "stopped"
    /\ orch' = "step3"
    /\ UNCHANGED <<chatVars, runVars, retryVars, progress, all_pms, pms_tasks, pms, fetch, sem_pms, sem_token, write_queue, unfinished,
                   writer, written, failed_writes, files, consumed,
                   total_saved, processed, sentinels_put>>

\* ---------------------------------------------- run_job_and_reply, the phases
\* The property list is collected: pms_to_name maps each id to its name.
Step1Ok ==
    /\ run_pc = "step1"
    /\ \E names \in [all_pms -> UNION { Names(p) : p \in all_pms }] :
          /\ \A p \in all_pms : names[p] \in Names(p)
          /\ pms_to_name' = names
    /\ run_pc' = "step2"
    /\ UNCHANGED <<chatVars, pipeVars, retryVars, ended_by, failed, errors, run_dir, parse_mode,
                   numbers_format, email_kind, labels, save_dir, reports, report_writes,
                   total_rows, total_emails, archive, delivered>>

\* An inner "except Exception" has caught the failure of a phase and awaits
\* send_error(m, <phase>, e).
PhaseFails(phase) ==
    /\ run_pc = phase
    /\ failed' = phase
    /\ run_pc' = "send_error"
    /\ UNCHANGED <<chatVars, pipeVars, retryVars, ended_by, errors, run_dir, parse_mode, numbers_format,
                   email_kind, labels, pms_to_name, save_dir, reports, report_writes, total_rows,
                   total_emails, delivered>>

Step1Fails == PhaseFails("step1") /\ UNCHANGED archive
Step2Fails == PhaseFails("step2") /\ UNCHANGED archive
Step3Fails == PhaseFails("step3") /\ UNCHANGED archive

\* Step 2 is over: xml/<pms>/ exists for the properties that had a document
\* written (or a write that failed after mkdir) and lists its files sorted.
Step2Ok ==
    /\ run_pc = "step2"
    /\ \E dirs \in SUBSET DOMAIN pms_to_name :
          \E x \in [dirs -> SeqsUpTo(DocKinds, MaxRows)] : save_dir' = x
    /\ run_pc' = "step3"
    /\ UNCHANGED <<chatVars, pipeVars, retryVars, ended_by, failed, errors, run_dir, parse_mode,
                   numbers_format, email_kind, labels, pms_to_name, reports, report_writes,
                   total_rows, total_emails, archive, delivered>>

\* An await m.answer(...) between the phases raises: the outer
\* "except Exception" awaits send_error(m, "Общая ошибка", e).
GeneralFails ==
    /\ run_pc \in { "step2", "step3" }
    /\ failed' = "general"
    /\ run_pc' = "send_error_outer"
    /\ UNCHANGED <<chatVars, pipeVars, retryVars, ended_by, errors, run_dir, parse_mode, numbers_format,
                   email_kind, labels, pms_to_name, save_dir, reports, report_writes, total_rows,
                   total_emails, archive, delivered>>

\* Lines 1269-1296: the builder the mode selects.
BuildReports ==
    IF parse_mode = "numbers"
    THEN IF Lower(numbers_format) = "kadir"
         THEN build_kadir_merged(pms_to_name, save_dir)
         ELSE build_hotel_reports(pms_to_name, save_dir, 1)
    ELSE build_email_reports(pms_to_name, save_dir,
                             IF email_kind = "None" THEN "other" ELSE email_kind, 1)

\* Faulty variant: the directory is left behind.
safe_rmtreeMutKeep(exists) == exists

\* shutil.rmtree(path, ignore_errors=True): the directory is gone afterwards.
safe_rmtree(exists) == FALSE

\* return, or the end of the try block: the "finally" clause runs at once and
\* safe_rmtree(run_dir) removes the directory with all below it, the
\* documents and the report files.
Return(how) ==
    /\ ended_by' = how
    /\ run_dir' = safe_rmtree(run_dir)
    /\ save_dir' = IF safe_rmtree(run_dir) THEN save_dir ELSE NoXml
    /\ report_writes' = IF safe_rmtree(run_dir) THEN report_writes ELSE <<>>
    /\ run_pc' = "ended"

\* Step 3: the reports are built; with none, "no data" is answered, run_dir is
\* removed and the run returns; otherwise step 4 is next.
Step3 ==
    /\ run_pc = "step3"
    /\ LET built == BuildReports
       IN  /\ reports' = built.reports
           /\ total_rows' = built.total_rows
           /\ total_emails' = built.total_emails
           /\ IF built.reports = <<>>
              THEN Return("no_data")
              ELSE /\ report_writes' = built.writes
                   /\ run_pc' = "step4"
                   /\ UNCHANGED <<run_dir, save_dir, ended_by>>
    /\ UNCHANGED <<chatVars, pipeVars, retryVars, failed, errors, parse_mode, numbers_format,
                   email_kind, labels, pms_to_name, archive, delivered>>

\* create_zip(reports, archive_path): one entry per path of reports.
create_zip(paths) == [made |-> TRUE, names |-> paths]

\* Step 4: the archive is made and sent; the try block ends.
Step4Ok ==
    /\ run_pc = "step4"
    /\ archive' = create_zip(reports)
    /\ delivered' = TRUE
    /\ Return("success")
    /\ UNCHANGED <<chatVars, pipeVars, retryVars, failed, errors, parse_mode, numbers_format,
                   email_kind, labels, pms_to_name, reports, total_rows, total_emails>>

\* create_zip raises.
Step4ZipFails == PhaseFails("step4") /\ UNCHANGED archive

\* answer_document raises after the archive was made.
Step4SendFails == PhaseFails("step4") /\ archive' = create_zip(reports)

\* send_error has sent its message: return.
ErrorSent ==
    /\ run_pc = "send_error"
    /\ errors' = Append(errors, failed)
    /\ Return(failed)
    /\ UNCHANGED <<chatVars, pipeVars, retryVars, failed, parse_mode, numbers_format,
                   email_kind, labels, pms_to_name, reports, total_rows,
                   total_emails, archive, delivered>>

\* m.answer raises inside send_error: the outer handler is entered.
ErrorRaises ==
    /\ run_pc = "send_error"
    /\ run_pc' = "send_error_outer"
    /\ UNCHANGED <<chatVars, pipeVars, retryVars, ended_by, failed, errors, run_dir, parse_mode,
                   numbers_format, email_kind, labels, pms_to_name, save_dir, reports, report_writes,
                   total_rows, total_emails, archive, delivered>>

\* The outer handler's send_error has sent "general", or has raised too:
\* either way the "finally" clause runs.
OuterError ==
    /\ run_pc = "send_error_outer"
    /\ \E sent \in BOOLEAN :
          errors' = IF sent THEN Append(errors, "general") ELSE errors
    /\ Return(failed)
    /\ UNCHANGED <<chatVars, pipeVars, retryVars, failed, parse_mode, numbers_format,
                   email_kind, labels, pms_to_name, reports, total_rows,
                   total_emails, archive, delivered>>

NextRun ==
    \/ Step1Ok
    \/ Step1Fails
    \/ Step2Ok
    \/ Step2Fails
    \/ GeneralFails
    \/ Step3
    \/ Step3Fails
    \/ Step4Ok
    \/ Step4ZipFails
    \/ Step4SendFails
    \/ ErrorSent
    \/ ErrorRaises
    \/ OuterError

Next ==
    \/ \E p \in all_pms : PmsStart(p)
    \/ \E p \in all_pms : PmsBooklog(p)
    \/ \E p \in all_pms : PmsGathered(p)
    \/ \E p \in all_pms, i \in 1..MaxRows : FetchStart(p, i)
    \/ \E p \in all_pms, i \in 1..MaxRows : FetchResponse(p, i)
    \/ \E p \in all_pms, i \in 1..MaxRows : FetchPut(p, i)
    \/ \E w \in Workers : WriterStop(w)
    \/ \E w \in Workers : WriterWrite(w)
    \/ \E w \in Workers : WriterWriteFails(w)
    \/ \E p \in all_pms : OrchCollect(p)
    \/ OrchPutSentinel
    \/ OrchJoin
    \/ OrchGather

NextRetry == RetryAttempt \/ RetryWake

Spec == Init /\ [][Next]_vars

SpecRetry == InitRetry /\ [][NextRetry]_vars

\* The event loop runs every ready coroutine and every request ends (each has
\* a timeout), so some enabled step is always taken eventually.
SpecLive == Init /\ [][Next]_vars /\ WF_vars(Next)

SpecRun == InitRun /\ [][NextRun]_vars

\* ------------------------------------------- a whole run: steps 2, 3 and 4
\* str(token)
RECURSIVE Str(_)
Str(n) ==
    IF n < 10 THEN Char("0123456789", n + 1)
    ELSE Str(n \div 10) \o Char("0123456789", (n % 10) + 1)

\* a < b for two file names "<token>.xml", as sorted() compares them: by the
\* code points of their characters, "." before the digits before the letters.
RECURSIVE NameLess(_, _)
NameLess(a, b) ==
    LET code(c) == CHOOSE k \in 1..14 : Char(".0123456789lmx", k) = c
    IN  IF b = "" THEN FALSE
        ELSE IF a = "" THEN TRUE
        ELSE IF Head(a) = Head(b) THEN NameLess(Tail(a), Tail(b))
        ELSE code(Head(a)) < code(Head(b))

\* Faulty variant: the files are listed by the value of their token.
RECURSIVE SortedXmlMutNumeric(_)
SortedXmlMutNumeric(S) ==
    IF S = {} THEN <<>>
    ELSE LET first == CHOOSE t \in S : \A u \in S : t <= u
         IN  <<first>> \o SortedXmlMutNumeric(S \ {first})

\* sorted(pms_dir.glob("*.xml")) for the files <token>.xml, token in S.
RECURSIVE SortedXml(_)
SortedXml(S) ==
    IF S = {} THEN <<>>
    ELSE LET first == CHOOSE t \in S :
                          \A u \in S \ {t} : NameLess(Str(t) \o ".xml", Str(u) \o ".xml")
         IN  <<first>> \o SortedXml(S \ {first})

\* The text behind a body of the backend: for property 1 its first document
\* is classified and its second is a valid document of no channel; for the
\* other properties both are classified, the second by its company name.
XmlText(p, xml) ==
    IF xml = Doc(1)
    THEN XmlDoc("ok", Company("19", ""), "2025-09-12", "Ann", "+100", "ann@mail.org", "120", "EUR")
    ELSE IF p = 1
    THEN XmlDoc("ok", NoCompany, "2025-09-13", "Bob", "+200", "bob@mail.org", "", "")
    ELSE XmlDoc("prefix", Company("", " Booking.COM "), "", "", "", " G2@Guest.Booking.Com", "", "")

\* The booking-log answers of the run: no row, or two rows whose tokens sort
\* differently as numbers, as names and as rows of the answer.
JobLogs ==
    { [list |-> TRUE, rows |-> <<>>] }
        \cup { [list |-> TRUE, rows |-> <<DictRow(RawInt(t[1])), DictRow(RawInt(t[2]))>>] :
                   t \in { <<10, 11>>, <<11, 10>>, <<2, 10>>, <<10, 2>> } }

JobBooklog(p) == \E js \in JobLogs : PmsBooklogOn(p, js)

\* Step 2 is over: what the writers left below xml/ is what step 3 reads.
Step2Done ==
    /\ run_pc = "step2"
    /\ orch = "step3"
    /\ save_dir' =
          [p \in { k[1] : k \in DOMAIN files } |->
              LET names == SortedXml({ k[2] : k \in { f \in DOMAIN files : f[1] = p } })
              IN  [i \in 1..Len(names) |-> XmlText(p, files[<<p, names[i]>>])]]
    /\ run_pc' = "step3"
    /\ UNCHANGED <<chatVars, pipeVars, retryVars, ended_by, failed, errors, run_dir, parse_mode,
                   numbers_format, email_kind, labels, pms_to_name, reports, report_writes,
                   total_rows, total_emails, archive, delivered>>

\* Step 1 has given two properties their names; step 2 begins.
InitJob ==
    /\ PipeInit(NumPms)
    /\ RetryIdle
    /\ ChatInit
    /\ run_pc = "step2"
    /\ run_dir = TRUE
    /\ \E m \in Modes :
          /\ parse_mode = m.parse_mode
          /\ numbers_format = m.numbers_format
          /\ email_kind = m.email_kind
    /\ ended_by = "running"
    /\ failed = "none"
    /\ errors = <<>>
    /\ labels = [p \in 1..NumPms |-> Str(p) \o " - Hotel " \o Str(p)]
    /\ pms_to_name = [p \in all_pms |-> "Hotel " \o Str(p)]
    /\ save_dir = NoXml
    /\ reports = <<>>
    /\ report_writes = <<>>
    /\ total_rows = 0
    /\ total_emails = 0
    /\ archive = [made |-> FALSE, names |-> <<>>]
    /\ delivered = FALSE

\* A run in which no phase raises.
NextJob ==
    \/ \E p \in all_pms : PmsStart(p)
    \/ \E p \in all_pms : JobBooklog(p)
    \/ \E p \in all_pms : PmsGathered(p)
    \/ \E p \in all_pms, i \in 1..MaxRows : FetchStart(p, i)
    \/ \E p \in all_pms, i \in 1..MaxRows : FetchResponse(p, i)
    \/ \E p \in all_pms, i \in 1..MaxRows : FetchPut(p, i)
    \/ \E w \in Workers : WriterStop(w)
    \/ \E w \in Workers : WriterWrite(w)
    \/ \E w \in Workers : WriterWriteFails(w)
    \/ \E p \in all_pms : OrchCollect(p)
    \/ OrchPutSentinel
    \/ OrchJoin
    \/ OrchGather
    \/ Step2Done
    \/ Step3
    \/ Step4Ok

SpecJob == InitJob /\ [][NextJob]_vars

\* Step 2 for one property more than NOTIFY_EVERY and more than
\* PMS_CONCURRENCY: property 1 has two tokens, the others one or none, so
\* that the queue fills while a property still waits for sem_pms; the
\* progress messages are due after the second property and after the last.
ShortBooklog(p) ==
    \E js \in (IF p = 1
                THEN { [list |-> TRUE, rows |-> <<DictRow(RawInt(1)), DictRow(RawInt(2))>>] }
                ELSE { [list |-> TRUE, rows |-> <<>>],
                       [list |-> TRUE, rows |-> <<DictRow(RawInt(1))>>] }) :
        PmsBooklogOn(p, js)

NextProgress ==
    \/ \E p \in all_pms : PmsStart(p)
    \/ \E p \in all_pms : ShortBooklog(p)
    \/ \E p \in all_pms : PmsGathered(p)
    \/ \E p \in all_pms, i \in 1..MaxRows : FetchStart(p, i)
    \/ \E p \in all_pms, i \in 1..MaxRows : FetchResponse(p, i)
    \/ \E p \in all_pms, i \in 1..MaxRows : FetchPut(p, i)
    \/ \E w \in Workers : WriterStop(w)
    \/ \E w \in Workers : WriterWrite(w)
    \/ \E w \in Workers : WriterWriteFails(w)
    \/ \E p \in all_pms : OrchCollect(p)
    \/ OrchPutSentinel
    \/ OrchJoin
    \/ OrchGather

SpecProgress == InitWide /\ [][NextProgress]_vars

\* The same under the event loop's scheduling: every ready coroutine is run
\* and every request ends (each has a timeout).
SpecAcquire == InitWide /\ [][NextProgress]_vars /\ WF_vars(NextProgress)

\* ------------------------------------------- step 1: from labels to pipelines
\* int(label.split("-", 1)[0].strip()), or None when that raises; None is
\* written 0 here, "if p" skips both.  The heads drawn below carry no sign
\* and no underscore.
extract_pms_from_label(label) ==
    LET RECURSIVE before(_)
        before(s) == IF s = "" \/ Char(s, 1) = "-" THEN ""
                     ELSE Char(s, 1) \o before(Tail(s))
        head == Strip(before(label))
        digits == [i \in 1..Len(head) |-> Char(head, i)]
    IN  IF head # "" /\ AllDigits(digits) THEN DigitsValue(digits) ELSE 0

\* txt.split("-", 1)[-1].strip(): the text after the first "-", or all of it.
LabelName(txt) ==
    LET RECURSIVE after(_)
        after(s) == IF s = "" THEN txt
                    ELSE IF Char(s, 1) = "-" THEN Tail(s)
                    ELSE after(Tail(s))
    IN  Strip(after(txt))

\* The dropdown texts of a run: two properties, each under two names, a text
\* with no number and one with the number 0; up to MaxLabels of them.
LabelLists ==
    SeqsUpTo({ "1 - A/B", "1-H", " 2 - A?*B", "2 -H", "Hotels", "0 - Z" }, MaxLabels)

\* Faulty variant: the list is used as it was collected.
WorkingSetMutAsCollected(ids) == ids

\* sorted(set(all_pms))
WorkingSet(ids) ==
    LET RECURSIVE sorted(_)
        sorted(S) == IF S = {} THEN <<>>
                     ELSE LET least == CHOOSE x \in S : \A y \in S : x <= y
                          IN  <<least>> \o sorted(S \ {least})
    IN  sorted({ ids[i] : i \in 1..Len(ids) })

\* Lines 1195-1232: the ids and names are taken from the labels, the list is
\* deduplicated and sorted, and step 2 creates one process_single_pms
\* coroutine for each element of the list; with an empty list the
\* as_completed loop has nothing to wait for.
Step1Labels ==
    /\ run_pc = "step1"
    /\ \E got \in LabelLists :
          LET kept == SelectSeq(got, LAMBDA txt : extract_pms_from_label(txt) # 0)
              ids  == [i \in 1..Len(kept) |-> extract_pms_from_label(kept[i])]
              list == WorkingSet(ids)
              last(p) == CHOOSE i \in 1..Len(kept) :
                             /\ ids[i] = p
                             /\ \A j \in 1..Len(kept) : ids[j] = p => j <= i
          IN  /\ labels' = got
              /\ pms_to_name' = [p \in { ids[i] : i \in 1..Len(ids) } |-> LabelName(kept[last(p)])]
              /\ pms_tasks' = list
              /\ all_pms' = { list[i] : i \in 1..Len(list) }
              /\ pms' = [p \in all_pms' |-> [pc |-> "start", ret |-> 0, exc |-> FALSE]]
              /\ fetch' = [p \in all_pms' |-> <<>>]
              /\ orch' = IF list = <<>> THEN "sentinels" ELSE "collect"
    /\ run_pc' = "step2"
    /\ UNCHANGED <<chatVars, retryVars, sem_pms, sem_token, write_queue, unfinished, writer, written,
                   failed_writes, files, consumed, total_saved, processed, sentinels_put,
                   progress, ended_by, failed, errors, run_dir, parse_mode, numbers_format,
                   email_kind, save_dir, reports, report_writes, total_rows, total_emails,
                   archive, delivered>>

InitLabels == PipeInit(0) /\ RetryIdle /\ RunInit /\ ChatInit

SpecLabels == InitLabels /\ [][Step1Labels \/ NextProgress]_vars

\* ------------------------------------------------------------ conversation
\* The updates of a chat: text messages and one without text (a photo).  The
\* Cyrillic button texts are written in Latin letters: "nomera", "pocht" and
\* "ostalny" stand for the substrings the handlers look for.
Messages ==
    { [none |-> FALSE, text |-> t] :
        t \in { "/start", " user@x.org", "secret", "2025-09-12 2025-09-13", "2025-09-12",
                "Nomera", "Pochty", " Word", "KADIR", "Booking.com", "Ostalnye" } }
        \cup { [none |-> TRUE, text |-> ""] }

\* @dp.message(CommandStart()), registered first: it takes "/start" in every
\* state.  state.clear(), the greeting, set_state; a greeting that raises
\* leaves the chat cleared.
cmd_start(m) ==
    /\ ~m.none /\ m.text = "/start"
    /\ data' = [k \in {} |-> ""]
    /\ \E sent \in BOOLEAN : state' = IF sent THEN "waiting_username" ELSE "None"
    /\ handled' = [handler |-> "cmd_start", m |-> m, login |-> "none", job |-> <<>>]
    /\ UNCHANGED <<pipeVars, retryVars, runVars>>

\* m.text.strip() raises for a message without text.
get_username(m) ==
    /\ state = "waiting_username"
    /\ m.text # "/start"
    /\ IF m.none THEN UNCHANGED <<state, data>>
       ELSE /\ data' = ("username" :> Strip(m.text)) @@ data
            /\ \E sent \in BOOLEAN : state' = IF sent THEN "waiting_password" ELSE state
    /\ handled' = [handler |-> "get_username", m |-> m, login |-> "none", job |-> <<>>]
    /\ UNCHANGED <<pipeVars, retryVars, runVars>>

\* begun: the first answer went through; login: how do_login and
\* open_menu_and_go ended; greeted: the answer inside the try went through;
\* told: send_error and the answer of the except clause went through.
get_password(m) ==
    /\ state = "waiting_password"
    /\ m.text # "/start"
    /\ IF m.none
       THEN /\ UNCHANGED <<state, data>>
            /\ handled' = [handler |-> "get_password", m |-> m, login |-> "none", job |-> <<>>]
       ELSE \E begun \in BOOLEAN, login \in { "ok", "failed" }, greeted \in BOOLEAN,
               told \in BOOLEAN :
               LET d == ("password" :> Strip(m.text)) @@ data
               IN  IF ~begun
                   THEN /\ state' = state /\ data' = d
                        /\ handled' = [handler |-> "get_password", m |-> m, login |-> "none",
                                       job |-> <<>>]
                   ELSE /\ handled' = [handler |-> "get_password", m |-> m, login |-> login,
                                       job |-> <<>>]
                        /\ IF login = "ok" /\ greeted
                           THEN state' = "waiting_dates" /\ data' = d
                           ELSE IF told
                           THEN state' = "None" /\ data' = [k \in {} |-> ""]
                           ELSE state' = state /\ data' = d
    /\ UNCHANGED <<pipeVars, retryVars, runVars>>

get_dates_and_start(m) ==
    /\ state = "waiting_dates"
    /\ m.text # "/start"
    /\ LET RECURSIVE split(_, _)
           split(s, w) ==
               LET word == IF w = "" THEN <<>> ELSE <<w>>
               IN  IF s = "" THEN word
                   ELSE IF Head(s) \in Whitespace THEN word \o split(Tail(s), "")
                   ELSE split(Tail(s), w \o Char(s, 1))
           parts == split(Strip(m.text), "")
       IN  IF Len(parts) # 2 THEN UNCHANGED <<state, data>>
           ELSE /\ data' = ("date_from" :> parts[1]) @@ ("date_to" :> parts[2]) @@ data
                /\ \E sent \in BOOLEAN : state' = IF sent THEN "waiting_choice" ELSE state
    /\ handled' = [handler |-> "get_dates_and_start", m |-> m, login |-> "none", job |-> <<>>]
    /\ UNCHANGED <<pipeVars, retryVars, runVars>>

select_numbers_or_emails(m) ==
    /\ state = "waiting_choice"
    /\ m.text # "/start"
    /\ LET text == Lower(Strip(m.text))
       IN  IF Contains(text, "nomera")
           THEN /\ data' = ("parse_mode" :> "numbers") @@ data
                /\ \E sent \in BOOLEAN :
                      state' = IF sent THEN "waiting_numbers_fmt" ELSE state
           ELSE IF Contains(text, "pocht")
           THEN /\ data' = ("parse_mode" :> "emails") @@ data
                /\ \E sent \in BOOLEAN :
                      state' = IF sent THEN "waiting_email_kind" ELSE state
           ELSE UNCHANGED <<state, data>>
    /\ handled' = [handler |-> "select_numbers_or_emails", m |-> m, login |-> "none", job |-> <<>>]
    /\ UNCHANGED <<pipeVars, retryVars, runVars>>

\* The run start_job_from_state creates from the data d, as the keyword
\* arguments of run_job_and_reply; none when a key it reads is missing.
start_job_from_state(d, mode) ==
    IF { "username", "password", "date_from", "date_to" } \subseteq DOMAIN d
    THEN <<[parse_mode |-> mode,
            numbers_format |-> IF "numbers_format" \in DOMAIN d
                               THEN d["numbers_format"] ELSE "word",
            email_kind |-> IF "email_kind" \in DOMAIN d THEN d["email_kind"] ELSE "None"]>>
    ELSE <<>>

\* announced: the answer before get_data went through; confirmed: the answer
\* at the end of start_job_from_state went through, so that state.clear() is
\* reached.
select_numbers_fmt(m) ==
    /\ state = "waiting_numbers_fmt"
    /\ m.text # "/start"
    /\ LET t == Lower(Strip(m.text))
           d == ("numbers_format" :> t) @@ data
           job == start_job_from_state(d, "numbers")
       IN  IF t \notin { "word", "kadir" }
           THEN /\ UNCHANGED <<state, data>>
                /\ handled' = [handler |-> "select_numbers_fmt", m |-> m, login |-> "none",
                               job |-> <<>>]
           ELSE \E announced \in BOOLEAN, confirmed \in BOOLEAN :
                   /\ handled' = [handler |-> "select_numbers_fmt", m |-> m, login |-> "none",
                                  job |-> IF announced THEN job ELSE <<>>]
                   /\ IF announced /\ job # <<>> /\ confirmed
                      THEN state' = "None" /\ data' = [k \in {} |-> ""]
                      ELSE state' = state /\ data' = d
    /\ UNCHANGED <<pipeVars, retryVars, runVars>>

select_email_kind(m) ==
    /\ state = "waiting_email_kind"
    /\ m.text # "/start"
    /\ LET text == Lower(Strip(m.text))
           kind == IF Contains(text, "booking") THEN "booking" ELSE "other"
           d == ("email_kind" :> kind) @@ data
           job == start_job_from_state(d, "emails")
       IN  IF ~Contains(text, "booking") /\ ~Contains(text, "ostalny")
           THEN /\ UNCHANGED <<state, data>>
                /\ handled' = [handler |-> "select_email_kind", m |-> m, login |-> "none",
                               job |-> <<>>]
           ELSE \E announced \in BOOLEAN, confirmed \in BOOLEAN :
                   /\ handled' = [handler |-> "select_email_kind", m |-> m, login |-> "none",
                                  job |-> IF announced THEN job ELSE <<>>]
                   /\ IF announced /\ job # <<>> /\ confirmed
                      THEN state' = "None" /\ data' = [k \in {} |-> ""]
                      ELSE state' = state /\ data' = d
    /\ UNCHANGED <<pipeVars, retryVars, runVars>>

\* The dispatcher hands each update of the chat to the first handler whose
\* filter matches; an update no filter matches is dropped.
SpecChat ==
    /\ Init
    /\ [][\E m \in Messages :
             \/ cmd_start(m)
             \/ get_username(m)
             \/ get_password(m)
             \/ get_dates_and_start(m)
             \/ select_numbers_or_emails(m)
             \/ select_numbers_fmt(m)
             \/ select_email_kind(m)]_vars

\* ================================================================ properties
TaskIds == { pi \in all_pms \X (1..(MaxRows + 1)) : pi[2] <= Len(fetch[pi[1]]) }

\* The fetch tasks inside "async with sem_token".
InFlight == { pi \in TaskIds : fetch[pi[1]][pi[2]].pc \in { "req", "put" } }

\* The properties inside "async with sem_pms".
InPipeline == { p \in all_pms : pms[p].pc \in { "booklog", "gather" } }

RECURSIVE SumRet(_)
SumRet(S) ==
    IF S = {} THEN 0
    ELSE LET p == CHOOSE x \in S : TRUE IN pms[p].ret + SumRet(S \ {p})

RECURSIVE SumSaved(_)
SumSaved(S) ==
    IF S = {} THEN 0
    ELSE LET p == CHOOSE x \in S : TRUE IN Saved(p) + SumSaved(S \ {p})

\* Fetches that have returned True so far.
FetchedOk == SumRet(all_pms) + SumSaved(all_pms)

DocsQueued == Cardinality({ k \in 1..Len(write_queue) : ~write_queue[k].none })
SentinelsQueued == Cardinality({ k \in 1..Len(write_queue) : write_queue[k].none })
Stopped == { w \in Workers : writer[w] = "stopped" }

\* C1: the document requests in flight, over all properties, never exceed
\* TOKEN_CONCURRENCY, and the permits account for exactly those requests.
C1_FetchBound ==
    /\ Cardinality(InFlight) <= TOKEN_CONCURRENCY
    /\ sem_token = TOKEN_CONCURRENCY - Cardinality(InFlight)

\* The limit is reached by requests of two properties while a third task waits.
C1_Witness ==
    /\ Cardinality(InFlight) = TOKEN_CONCURRENCY
    /\ \E a \in InFlight, b \in InFlight : a[1] # b[1]
    /\ \E pi \in TaskIds : fetch[pi[1]][pi[2]].pc = "start"

\* C2: the properties inside their resolve+fetch pipeline never exceed
\* PMS_CONCURRENCY; sem_pms accounts for exactly those properties, whatever
\* the state of the document-fetch semaphore.
C2_PmsBound ==
    /\ Cardinality(InPipeline) <= PMS_CONCURRENCY
    /\ sem_pms = PMS_CONCURRENCY - Cardinality(InPipeline)

\* The property limit is reached by a property that waits for its booking log
\* and one that has spawned its fetch tasks, a third property waits for a
\* permit, and no document request is in flight.
C2_Witness ==
    /\ Cardinality(InPipeline) = PMS_CONCURRENCY
    /\ \E p \in all_pms : pms[p].pc = "start"
    /\ \E p \in all_pms : pms[p].pc = "booklog"
    /\ \E p \in all_pms : pms[p].pc = "gather" /\ Len(fetch[p]) = 2
    /\ InFlight = {}
    /\ sem_token = TOKEN_CONCURRENCY

C3_State ==
    /\ Len(write_queue) <= WRITE_QUEUE_MAXSIZE
    /\ \A pi \in TaskIds :
          fetch[pi[1]][pi[2]].pc = "put" => fetch[pi[1]][pi[2]].xml # Empty
    /\ FetchedOk = DocsQueued + written + failed_writes
    /\ (orch = "step3" /\ failed_writes = 0) =>
          (written = total_saved /\ total_saved = FetchedOk)

C3_Step ==
    \A pi \in TaskIds :
        LET p == pi[1]
            i == pi[2]
        IN  /\ (fetch[p][i].pc = "req" /\ Len(fetch'[p]) >= i /\ fetch'[p][i].pc = "put")
                  => Full(write_queue)
            /\ (fetch[p][i].pc = "put" /\ Len(fetch'[p]) >= i /\ fetch'[p][i].pc # "put")
                  => /\ ~Full(write_queue)
                     /\ write_queue' = Append(write_queue, Item(p, fetch[p][i].token, fetch[p][i].xml))

\* C3: the queue never holds more than WRITE_QUEUE_MAXSIZE items; a producer
\* suspends in put exactly when the queue is full, keeps its document and
\* enqueues it once a slot is free; every document of a successful fetch is
\* in the queue, written or failed; and after the drain, when no write
\* failed, the documents written equal the fetches that returned True.
C3_Backpressure == [](C3_State) /\ [][C3_Step]_vars

\* A producer is suspended on the full queue after a document was written.
C3_Witness ==
    /\ Len(write_queue) = WRITE_QUEUE_MAXSIZE
    /\ \E pi \in TaskIds : fetch[pi[1]][pi[2]].pc = "put"
    /\ written > 0

\* C4: None items are put only after every property pipeline (and so every
\* fetch task) has completed; exactly WRITERS of them are put; each stops
\* exactly one worker; no document is queued behind a None, so none is left
\* once the workers have stopped.
C4_Shutdown ==
    /\ sentinels_put > 0 =>
          /\ \A p \in all_pms : pms[p].pc = "done" /\ fetch[p] = <<>>
          /\ consumed = all_pms
    /\ sentinels_put <= WRITERS
    /\ orch \in { "join", "gather", "step3" } => sentinels_put = WRITERS
    /\ Cardinality(Stopped) + SentinelsQueued = sentinels_put
    /\ \A j \in 1..Len(write_queue), k \in 1..Len(write_queue) :
          (j < k /\ write_queue[j].none) => write_queue[k].none
    /\ Stopped = Workers => write_queue = <<>>

\* Every worker has stopped on its None after documents were written.
C4_Witness ==
    /\ Stopped = Workers
    /\ sentinels_put = WRITERS
    /\ written >= 2

\* C5: when report building starts, every item put on the queue has been
\* acknowledged, every writer has stopped, every fetched document has been
\* written or has failed, and no write can happen any more.
C5_Barrier ==
    orch = "step3" =>
        /\ unfinished = 0
        /\ write_queue = <<>>
        /\ Stopped = Workers
        /\ FetchedOk = written + failed_writes
        /\ ~ENABLED (\E w \in Workers : WriterWrite(w) \/ WriterWriteFails(w))

\* Report building starts after documents were written and one write failed.
C5_Witness ==
    /\ orch = "step3"
    /\ written >= 2
    /\ failed_writes >= 1

\* C6: the fetch tasks of a property carry pairwise different tokens (one
\* task per discovered token value).
C6_TokenDedup ==
    \A p \in all_pms : \A i \in 1..Len(fetch[p]), j \in 1..Len(fetch[p]) :
        i # j => fetch[p][i].token # fetch[p][j].token

Is2xx(o) == o.kind = "response" /\ 200 <= o.status /\ o.status <= 299

\* C7: when the endpoint fails N-1 times and then answers 2xx, with N no
\* larger than the configured attempts, the call returns the answer after
\* exactly N requests; when it fails as often as there are attempts, the
\* call returns None after exactly that many requests; the call ends in no
\* other way; and no retry delay is shorter than the one before it.
C7_RetryOutcome ==
    /\ r_pc \in { "request", "sleep", "returned" }
    /\ r_requests <= r_cfg.attempts
    /\ Is2xx(r_last) =>
          /\ r_pc = "returned"
          /\ r_result \in { "js", "text" }
          /\ r_requests = r_fails + 1
    /\ r_fails = r_cfg.attempts =>
          /\ r_pc = "returned"
          /\ r_result = "None"
          /\ r_requests = r_cfg.attempts
    /\ r_result = "None" => r_fails = r_cfg.attempts
    /\ \A k \in 1..(Len(r_sleeps) - 1) : r_sleeps[k] <= r_sleeps[k + 1]

\* The booking-log call succeeds on its last attempt, after four sleeps.
C7_Witness ==
    /\ r_cfg = BooklogCall
    /\ r_pc = "returned"
    /\ Is2xx(r_last)
    /\ r_requests = BOOKLOG_RETRY_ATTEMPTS
    /\ Len(r_sleeps) = BOOKLOG_RETRY_ATTEMPTS - 1

\* C8: an answer whose status is not 2xx is a failed attempt: the call
\* sleeps before its retry, or has returned None when no attempt was left.
C8_Non2xxFails ==
    (r_last.kind = "response" /\ ~Is2xx(r_last)) =>
        \/ r_pc = "sleep"
        \/ r_pc = "returned" /\ r_result = "None"

UnusablePayload(js) ==
    \/ js.t \in { "None", "int" }
    \/ js.t = "list" /\ js.first # "dict"
    \/ js.val \in { Empty, Absent }

C9_State ==
    /\ \A pi \in TaskIds :
          LET t == fetch[pi[1]][pi[2]]
          IN  /\ t.pc \in { "start", "req", "put", "done" }
              /\ t.pc = "done" => (t.res <=> t.xml # Empty)
              /\ t.pc # "done" => ~t.res
    /\ \A i \in 1..MaxRows : \A js \in XmlPayloads(i) :
          UnusablePayload(js) <=> api_get_xml_aio(js) = Empty

C9_Step ==
    /\ \A pi \in TaskIds :
          LET p == pi[1]
              i == pi[2]
          IN  (fetch[p][i].pc # "done" /\ Len(fetch'[p]) >= i /\ fetch'[p][i].pc = "done")
                  => IF fetch'[p][i].res
                     THEN write_queue' =
                              Append(write_queue, Item(p, fetch[p][i].token, fetch'[p][i].xml))
                     ELSE write_queue' = write_queue
    /\ fetch' # fetch => files' = files

C10_State ==
    /\ orch \in { "collect", "sentinels", "join", "gather", "step3" }
    /\ \A p \in all_pms :
          pms[p].exc => (pms[p].pc = "done" /\ pms[p].ret = 0 /\ fetch[p] = <<>>)
    /\ total_saved = SumRet(consumed)
    /\ processed = Cardinality(consumed)
    /\ orch # "collect" => consumed = all_pms

C10_Step ==
    \A p \in all_pms :
        (~pms[p].exc /\ pms'[p].exc) =>
            \A q \in all_pms \ {p} : pms'[q] = pms[q] /\ fetch'[q] = fetch[q]

\* C10: an exception in a property's pipeline ends that pipeline with the
\* result 0 and no fetch task, leaves every other pipeline as it was, and
\* does not end step 2; the run's total is the sum of the results of the
\* pipelines taken so far, and of all of them once the loop is over.
C10_Isolation == [](C10_State) /\ [][C10_Step]_vars

\* The run reaches report building although a pipeline raised, with the
\* documents of its sibling counted.
C10_Witness ==
    /\ orch = "step3"
    /\ \E p \in all_pms : pms[p].exc
    /\ \E q \in all_pms : pms[q].ret = 2
    /\ total_saved = 2

\* The results of a property's fetch tasks that are True.
TrueResults(p) ==
    Cardinality({ i \in 1..Len(fetch[p]) : fetch[p][i].pc = "done" /\ fetch[p][i].res })

C11_State ==
    \A p \in all_pms :
        /\ pms[p].pc # "gather" => fetch[p] = <<>>
        /\ pms[p].pc = "gather" => Len(fetch[p]) >= 1
        /\ TrueResults(p) <= Len(fetch[p])
        /\ pms[p].ret <= MaxRows

C11_Step ==
    \A p \in all_pms :
        /\ \A i \in 1..Len(fetch[p]) :
              (fetch[p][i].pc # "done" /\ Len(fetch'[p]) >= i
                    /\ fetch'[p][i].pc = "done" /\ ~fetch'[p][i].res)
                  => /\ Len(fetch'[p]) = Len(fetch[p])
                     /\ \A j \in 1..Len(fetch[p]) : j # i => fetch'[p][j] = fetch[p][j]
                     /\ \A q \in all_pms \ {p} : fetch'[q] = fetch[q]
                     /\ pms' = pms
        /\ (pms[p].pc = "gather" /\ pms'[p].pc = "gather")
              => /\ Len(fetch'[p]) = Len(fetch[p])
                 /\ \A i \in 1..Len(fetch[p]) : fetch'[p][i].token = fetch[p][i].token
        /\ (pms[p].pc = "gather" /\ pms'[p].pc = "done")
              => /\ \A i \in 1..Len(fetch[p]) : fetch[p][i].pc = "done"
                 /\ pms'[p].ret = TrueResults(p)
                 /\ pms'[p].ret <= Len(fetch[p])
                 /\ ~pms'[p].exc

\* C11: a fetch task that returns False changes no sibling task, no other
\* property and not the property's own pipeline; no task is removed before
\* the property returns; the property returns only when every task has
\* ended, and its result is the number of its tasks that returned True, which
\* is at most the number of its tokens.
C11_TokenIsolation == [](C11_State) /\ [][C11_Step]_vars

\* A property's first fetch has failed and its second has returned True, with
\* the second's document written.
C11_Witness ==
    \E p \in all_pms :
        /\ Len(fetch[p]) = 2
        /\ fetch[p][1].pc = "done" /\ ~fetch[p][1].res
        /\ fetch[p][2].pc = "done" /\ fetch[p][2].res
        /\ <<p, fetch[p][2].token>> \in DOMAIN files

\* The answers api_is_bookinglog_aio gets when discovery failed: None after the
\* retries are used up, a decoded value that is no list, undecodable text.
FailedDiscovery == { js \in AllBooklogPayloads : ~js.list }
EmptyResult == [list |-> TRUE, rows |-> <<>>]

C12_State ==
    /\ FailedDiscovery # {}
    /\ \A js \in FailedDiscovery : Tokens(api_is_bookinglog_aio(js)) = <<>>

C12_Step ==
    \A p \in all_pms : \A js \in FailedDiscovery :
        /\ PmsBooklogOn(p, js) <=> PmsBooklogOn(p, EmptyResult)
        /\ PmsBooklogOn(p, js) =>
              /\ pms'[p] = [pc |-> "done", ret |-> 0, exc |-> FALSE]
              /\ fetch[p] = <<>> /\ fetch' = fetch
              /\ orch' = orch
              /\ \A q \in all_pms \ {p} : pms'[q] = pms[q]

\* C12: a failed booking-log query yields no token; the step a property takes
\* on a failed query is the step it takes on an empty answer: it returns 0
\* with no exception caught, creates no fetch task, and leaves step 2 and
\* the other properties as they were.
C12_DiscoveryDegrades == [](C12_State) /\ [][C12_Step]_vars

\* A property has returned 0 from its booking-log step, without an exception
\* and with no fetch task, before its result is taken, while its sibling has
\* a document request in flight.
C12_Witness ==
    \E p \in all_pms, q \in all_pms :
        /\ pms[p] = [pc |-> "done", ret |-> 0, exc |-> FALSE]
        /\ written + failed_writes + DocsQueued = 0
        /\ p \notin consumed
        /\ Len(fetch[q]) = 2 /\ fetch[q][1].pc = "req" /\ fetch[q][2].pc = "start"

C13_State ==
    \A k \in DOMAIN files :
        /\ k[1] \in all_pms
        /\ files[k] # Empty

C13_Step ==
    (files' # files \/ written' # written) =>
        /\ written' = written + 1
        /\ write_queue # <<>>
        /\ ~Head(write_queue).none
        /\ LET item == Head(write_queue)
               k == <<item.pms, item.token>>
           IN  /\ DOMAIN files' = DOMAIN files \cup {k}
               /\ files'[k] = item.xml
               /\ \A j \in DOMAIN files \ {k} : files'[j] = files[j]

\* C13: a write changes the file of its own (property, token) key only, and
\* that file then holds the content of this write, whether the file existed
\* or not; the files are keyed by (property, token), so there is one per key.
C13_IdempotentWrite == [](C13_State) /\ [][C13_Step]_vars

\* Two documents of one (property, token) key have both been written, the
\* second task's document first: the file holds the first task's document.
C13_Witness ==
    \E p \in all_pms :
        /\ Len(fetch[p]) = 2
        /\ fetch[p][1].token = fetch[p][2].token
        /\ fetch[p][1].res /\ fetch[p][2].res
        /\ write_queue = <<>>
        /\ written = 2 /\ failed_writes = 0
        /\ files[<<p, fetch[p][1].token>>] = Doc(1)

C14_State ==
    /\ unfinished = Len(write_queue)
    /\ Cardinality(Stopped) <= sentinels_put
    /\ (write_queue # <<>> /\ ~Head(write_queue).none) =>
          \E w \in Workers : ENABLED WriterWrite(w)

C14_Step ==
    failed_writes' # failed_writes =>
        /\ failed_writes' = failed_writes + 1
        /\ ~Head(write_queue).none
        /\ write_queue' = Tail(write_queue)
        /\ unfinished' = unfinished - 1
        /\ writer' = writer
        /\ files' = files
        /\ written' = written

\* C14: a write that fails removes its item, acknowledges it once, changes no
\* file and leaves every worker running; a worker stops only on a None; a
\* queued document always finds a worker able to write it; and after a
\* failed write the run still reaches report building.
C14_BestEffort ==
    /\ [](C14_State)
    /\ [][C14_Step]_vars
    /\ (failed_writes > 0 ~> orch = "step3")

\* The first write of the run has failed: every worker is still running and
\* a later document is queued for them.
C14_Witness ==
    /\ failed_writes = 1
    /\ written = 0
    /\ DocsQueued >= 1
    /\ unfinished = DocsQueued
    /\ \A w \in Workers : writer[w] = "run"

C16_Step ==
    (save_dir = NoXml /\ run_pc \in { "step3", "step4" }) =>
        /\ ~archive'.made
        /\ ~delivered'
        /\ run_pc' = "ended" => ~run_dir'

\* C16: when no property yields a token, so that no document is persisted, no
\* archive is made or delivered in any report mode (Word, CSV, email booking,
\* email other), and the working directory is still removed.
C16_NoDataNoArchive == [][C16_Step]_vars

\* ---------------------------------------------------------------------- C17
\* fmt is not "kadir": the phone-oriented (Word) report.
WordMode == parse_mode = "numbers" /\ Lower(numbers_format) # "kadir"

\* The documents persisted for property p, in the order the builders read them.
DocsOf(p) == IF p \in DOMAIN save_dir THEN save_dir[p] ELSE <<>>

\* The number of lines written by the calls ws.
RECURSIVE LinesIn(_)
LinesIn(ws) == IF ws = <<>> THEN 0 ELSE Len(Head(ws).lines) + LinesIn(Tail(ws))

\* The calls made for property p.
WritesFor(p) == SelectSeq(report_writes, LAMBDA w : w.pms = p)

\* C17: in the phone-oriented report every line written comes from a persisted
\* document of that property that is classified as coming from the channel;
\* the lines of a property are, in order, one formatted line for each
\* classified document with a non-empty field, so a document that fails to
\* classify contributes no line; total_rows counts the lines.
C17_PhoneFilter ==
    (run_pc = "step4" /\ WordMode) =>
        /\ \A k \in 1..Len(report_writes) :
              LET w == report_writes[k]
                  classified == SelectSeq(DocsOf(w.pms), is_booking_com_xml)
                  kept == SelectSeq(classified, LAMBDA d : AnyField(parse_booking_info(d)))
              IN  /\ w.pms \in DOMAIN pms_to_name
                  /\ kept # <<>>
                  /\ Len(w.lines) = Len(kept)
                  /\ \A i \in 1..Len(kept) :
                        w.lines[i] = HotelLine(pms_to_name[w.pms], parse_booking_info(kept[i]))
        /\ \A p \in DOMAIN pms_to_name :
              /\ Len(WritesFor(p)) <= 1
              /\ (\A i \in 1..Len(DocsOf(p)) : ~is_booking_com_xml(DocsOf(p)[i]))
                    => WritesFor(p) = <<>>
        /\ total_rows = LinesIn(report_writes)

\* The phone report of a property with two documents, the first not classified
\* though it has a name and a phone, the second classified: one line.
C17_Witness ==
    /\ run_pc = "step4"
    /\ WordMode
    /\ \E p \in DOMAIN save_dir :
          /\ Len(save_dir[p]) = 2
          /\ ~is_booking_com_xml(save_dir[p][1])
          /\ AnyField(parse_booking_info(save_dir[p][1]))
          /\ is_booking_com_xml(save_dir[p][2])
          /\ Len(WritesFor(p)) = 1
          /\ Len(WritesFor(p)[1].lines) = 1
    /\ total_rows = LinesIn(report_writes)

\* ---------------------------------------------------------------------- C18
\* The "else" branch of line 1297, and the kind build_email_reports is given.
EmailMode == parse_mode # "numbers"
Kind == IF email_kind = "None" THEN "other" ELSE email_kind

\* C18: in the email report of kind "booking" a record is kept if and only if
\* its trimmed, lower-cased email is non-empty and ends with the relay domain
\* "@guest.booking.com"; of kind "other", if and only if that email is
\* non-empty and ends with no domain of EXCLUDE_EMAIL_DOMAINS.  The decision
\* reads the email alone, not the channel classification: the lines of a
\* property are, in order, one line for each of its records so kept, and a
\* property with none gets no file; total_emails counts the lines.
C18_EmailFilter ==
    (run_pc = "step4" /\ EmailMode) =>
        /\ \A p \in DOMAIN pms_to_name :
              LET em(r) == Lower(Strip(r.email))
                  keep(r) ==
                      /\ em(r) # ""
                      /\ Kind = "booking" => EndsWith(em(r), "@guest.booking.com")
                      /\ Kind # "booking" =>
                            \A dom \in EXCLUDE_EMAIL_DOMAINS : ~EndsWith(em(r), dom)
                  kept == SelectSeq(RowsOf(DocsOf(p)), keep)
              IN  IF kept = <<>> THEN WritesFor(p) = <<>>
                  ELSE /\ Len(WritesFor(p)) = 1
                       /\ WritesFor(p)[1].lines =
                             [i \in 1..Len(kept) |-> EmailLine(pms_to_name[p], kept[i])]
        /\ \A k \in 1..Len(report_writes) : report_writes[k].pms \in DOMAIN pms_to_name
        /\ total_emails = LinesIn(report_writes)

\* The "booking" report of a property with two documents: the first is not
\* classified and carries a relay address in mixed case, the second is
\* classified and carries another address.  The first alone gives a line.
C18_Witness ==
    /\ run_pc = "step4"
    /\ EmailMode
    /\ Kind = "booking"
    /\ \E p \in DOMAIN save_dir :
          /\ Len(save_dir[p]) = 2
          /\ ~is_booking_com_xml(save_dir[p][1])
          /\ save_dir[p][1].email # Lower(save_dir[p][1].email)
          /\ is_booking_com_xml(save_dir[p][2])
          /\ save_dir[p][2].email # ""
          /\ Len(WritesFor(p)) = 1
          /\ WritesFor(p)[1].lines = <<EmailLine(pms_to_name[p], parse_booking_info(save_dir[p][1]))>>

\* ---------------------------------------------------------------------- C19
\* fmt is "kadir": the structured CSV export.
KadirMode == parse_mode = "numbers" /\ Lower(numbers_format) = "kadir"

\* The document parses and one of the fields extracted from it is non-empty.
HasData(doc) ==
    /\ HasRoot(doc)
    /\ AnyField(parse_booking_info(doc)) \/ parse_booking_info(doc).currency # ""

\* One of the fields of a CSV row that are extracted from the document (the
\* number and the address are not) is non-empty.
KadirRowHasData(row) ==
    \/ row.GivenName # "" \/ row.Surname # "" \/ row.TimeSpan_start # ""
    \/ row.TimeSpan_end # "" \/ row.Total_inc_currency # "" \/ row.Email # ""
    \/ row.Telephone # "" \/ row.BasicPropertyInfo_ChainCode # ""

\* C19: in every report mode no record is emitted for a document that fails
\* to parse or from which no extracted field is non-empty: a property's file
\* has at most one line for each of its documents that parse and carry a
\* non-empty field, and every row of the CSV export has a non-empty extracted
\* field.
C19_NoEmptyRecord ==
    run_pc = "step4" =>
        \A k \in 1..Len(report_writes) :
            LET w == report_writes[k]
            IN  IF KadirMode
                THEN \A i \in 2..Len(w.lines) : KadirRowHasData(w.lines[i][2])
                ELSE Len(w.lines) <= Len(SelectSeq(DocsOf(w.pms), HasData))

\* ---------------------------------------------------------------------- C20
\* The builder of the mode keeps a record of property p.
HasKept(p) ==
    \E i \in 1..Len(DocsOf(p)) :
        IF WordMode THEN HotelKeeps(DocsOf(p)[i])
        ELSE EmailKeeps(Kind, parse_booking_info(DocsOf(p)[i]))

\* The files below reports/ once the builder has returned: path.open("w")
\* replaces a file of the same name.
ReportFiles == { report_writes[k].path : k \in 1..Len(report_writes) }

\* C20: in the per-property report modes each property with a kept record gets
\* a report file of its own and a property without one gets none: the number
\* of distinct report files equals the number of properties with a kept
\* record, also when two display names sanitize to the same file name.
C20_OneFilePerProperty ==
    (run_pc = "step4" /\ ~KadirMode) =>
        Cardinality(ReportFiles) = Cardinality({ p \in DOMAIN pms_to_name : HasKept(p) })

\* ---------------------------------------------------------------------- C21
\* The scenario: property 1 had the tokens 10 and 11, both documents were
\* fetched and persisted and exactly one of them is classified; property 2
\* contributed nothing.
C21_Scenario ==
    /\ WordMode
    /\ DOMAIN files = { <<1, 10>>, <<1, 11>> }
    /\ pms[1].ret = 2
    /\ pms[2].ret = 0
    /\ Cardinality({ k \in DOMAIN files : is_booking_com_xml(XmlText(1, files[k])) }) = 1

\* C21: with two properties, of which the first has the tokens 10 and 11 that
\* both return valid documents, exactly one of them classified, and the second
\* has no token, a phone-mode run writes exactly one report line, for the
\* first property and from its classified document, writes no file for the
\* second, and counts 2 documents saved and 1 row.
C21_EndToEnd ==
    (run_pc = "step4" /\ C21_Scenario) =>
        /\ total_saved = 2
        /\ total_rows = 1
        /\ Len(report_writes) = 1
        /\ report_writes[1].pms = 1
        /\ \E k \in DOMAIN files :
              /\ is_booking_com_xml(XmlText(1, files[k]))
              /\ report_writes[1].lines =
                    <<HotelLine(pms_to_name[1], parse_booking_info(XmlText(1, files[k])))>>
        /\ WritesFor(2) = <<>>
        /\ Len(reports) = 1

\* The scenario with token 11 carrying the classified document, at the
\* archiving step.
C21_Witness ==
    /\ run_pc = "step4"
    /\ C21_Scenario
    /\ is_booking_com_xml(XmlText(1, files[<<1, 11>>]))
    /\ total_saved = 2
    /\ total_rows = 1
    /\ processed = 2

\* ---------------------------------------------------------------------- C22
\* C22: the prefix before the first "<" is removed and the text parsed again
\* at most once, so a document that needs more than that stays unparseable;
\* such a document contributes no row, and the property's other documents
\* contribute theirs: the builder writes what it would write without it.
C22_ParseRecovery ==
    run_pc = "step4" =>
        LET Parseable ==
                [p \in DOMAIN save_dir |->
                    SelectSeq(save_dir[p], LAMBDA d : d.parse \in { "ok", "prefix" })]
            built == IF KadirMode THEN build_kadir_merged(pms_to_name, Parseable)
                     ELSE IF WordMode THEN build_hotel_reports(pms_to_name, Parseable, 1)
                     ELSE build_email_reports(pms_to_name, Parseable, Kind, 1)
        IN  /\ report_writes = built.writes
            /\ total_rows = built.total_rows
            /\ total_emails = built.total_emails

\* The phone report of a property whose first document stays unparseable
\* after one removal, though its text names a guest and the channel, and whose
\* second document parses after one removal: one line, of the second.
C22_Witness ==
    /\ run_pc = "step4"
    /\ WordMode
    /\ \E p \in DOMAIN save_dir :
          /\ Len(save_dir[p]) = 2
          /\ save_dir[p][1].parse = "prefix2"
          /\ save_dir[p][1].given # ""
          /\ save_dir[p][1].company.present
          /\ save_dir[p][2].parse = "prefix"
          /\ Len(WritesFor(p)) = 1
          /\ WritesFor(p)[1].lines =
                <<HotelLine(pms_to_name[p], parse_booking_info(save_dir[p][2]))>>

\* ---------------------------------------------------------------------- C23
\* The rule: the text parses (as it is or after one removal of its prefix),
\* it has the CompanyName element below Source/BookingChannel, and that
\* element carries the code 19 or names "booking.com" somewhere in its text,
\* in whatever case.
C23_Rule(doc) ==
    /\ doc.parse \in { "ok", "prefix" }
    /\ doc.company.present
    /\ \/ Strip(doc.company.Code) = "19"
       \/ \E i \in 1..Len(doc.company.text) :
             /\ i + 10 <= Len(doc.company.text)
             /\ Lower(SubSeq(doc.company.text, i, i + 10)) = "booking.com"

\* is_booking_com_xml agrees with the rule on every combination of a parse
\* outcome, a code and a company name.
C23_OnInputs ==
    LET companies ==
            { NoCompany } \cup
            { Company(code, text) :
                  code \in { "19", " 19 ", "190", "1 9", "20", "" },
                  text \in { "", "booking.com", " Booking.COM ", "via BOOKING.com BV",
                             "Booking", "booking com", "Expedia" } }
    IN  \A parse \in { "ok", "prefix", "prefix2" }, company \in companies :
            LET doc == XmlDoc(parse, company, "2025-09-12", "Ann", "", "", "", "")
            IN  is_booking_com_xml(doc) <=> C23_Rule(doc)

\* C23: a document is attributed to the channel if and only if it has the
\* company element and that element carries the code "19" or its text
\* contains "booking.com" compared case-insensitively; a document that does
\* not parse or lacks the element is not attributed.  The CSV export, which
\* emits one row per attributed document, has as many rows as the persisted
\* documents that satisfy the rule.
C23_Classification ==
    /\ C23_OnInputs
    /\ (run_pc = "step4" /\ KadirMode) =>
          /\ \A p \in DOMAIN save_dir : \A i \in 1..Len(save_dir[p]) :
                is_booking_com_xml(save_dir[p][i]) <=> C23_Rule(save_dir[p][i])
          /\ total_rows = LinesIn(report_writes) - 1
          /\ total_rows = LinesIn([k \in 1..NumPms |->
                                      [lines |-> SelectSeq(DocsOf(k), C23_Rule)]])

\* The CSV export of a property with two documents: one names the channel in
\* capitals after a text prefix and has no code, the other carries the code
\* and name of another company.  One row.
C23_Witness ==
    /\ run_pc = "step4"
    /\ KadirMode
    /\ \E p \in DOMAIN save_dir :
          /\ Len(save_dir[p]) = 2
          /\ save_dir[p][1].parse = "prefix"
          /\ save_dir[p][1].company.Code = ""
          /\ is_booking_com_xml(save_dir[p][1])
          /\ save_dir[p][2].company.Code = "20"
          /\ ~is_booking_com_xml(save_dir[p][2])
          /\ DOMAIN save_dir = {p}
    /\ total_rows = 1

\* ---------------------------------------------------------------------- C24
C24_State ==
    /\ processed = Cardinality(consumed)
    /\ progress.sent = Cardinality({ n \in 1..processed : n % NOTIFY_EVERY = 0 \/ n = Cardinality(all_pms) })
    /\ (orch # "collect" /\ all_pms # {}) =>
          /\ progress.processed = Cardinality(all_pms)
          /\ progress.saved = SumRet(all_pms)
          /\ progress.saved = total_saved

C24_Step ==
    /\ processed' # processed =>
          /\ processed' = processed + 1
          /\ \E p \in all_pms :
                /\ pms[p].pc = "done"
                /\ consumed' = consumed \cup {p}
                /\ p \notin consumed
                /\ total_saved' = total_saved + pms[p].ret
    /\ consumed' # consumed => processed' = processed + 1
    /\ progress' # progress <=>
          /\ processed' = processed + 1
          /\ processed' % NOTIFY_EVERY = 0 \/ processed' = Cardinality(all_pms)
    /\ progress' # progress =>
          /\ progress'.sent = progress.sent + 1
          /\ progress'.processed = processed'
          /\ progress'.saved = total_saved'

\* C24: the counter of processed properties grows by exactly one for each
\* property pipeline whose result is taken, in whatever order they complete;
\* a progress message is sent exactly when the counter is a multiple of
\* NOTIFY_EVERY or equals the number of properties, with the counter and the
\* running total of saved documents; and once the loop is over the latest
\* message shows processed = total and the sum of all properties' results.
C24_Progress == [](C24_State) /\ [][C24_Step]_vars

\* The loop is over for three properties of which only property 1 saved a
\* document: two messages were sent, the latest with 3 properties and 1
\* document.
C24_Witness ==
    /\ orch = "sentinels"
    /\ Cardinality(all_pms) = NOTIFY_EVERY + 1
    /\ pms[1].ret = 1
    /\ SumRet(all_pms) = 1
    /\ progress = [sent |-> 2, processed |-> 3, saved |-> 1]

\* ---------------------------------------------------------------------- C25
C25_State ==
    LET discovering == { p \in all_pms : pms[p].pc = "booklog" }
    IN  /\ Cardinality(discovering) <= PMS_CONCURRENCY
        /\ Cardinality(discovering) <= PMS_CONCURRENCY - sem_pms
        /\ PMS_CONCURRENCY < TOKEN_CONCURRENCY

C25_Step ==
    \A p \in all_pms :
        (pms[p].pc # "booklog" /\ pms'[p].pc = "booklog") =>
            /\ sem_pms > 0
            /\ sem_pms' = sem_pms - 1
            /\ sem_token' = sem_token

\* C25: the booking-log queries in flight at the same time are at most
\* PMS_CONCURRENCY, the limit of sem_pms, which every query holds a permit of;
\* that semaphore is not the one of the document fetches (a query leaves
\* sem_token alone) and its limit is smaller than TOKEN_CONCURRENCY.
C25_DiscoveryBound == [](C25_State) /\ [][C25_Step]_vars

\* PMS_CONCURRENCY queries are in flight and hold every permit of sem_pms, a
\* further property waits for one, and sem_token is untouched.
C25_Witness ==
    /\ Cardinality({ p \in all_pms : pms[p].pc = "booklog" }) = PMS_CONCURRENCY
    /\ sem_pms = 0
    /\ \E p \in all_pms : pms[p].pc = "start"
    /\ sem_token = TOKEN_CONCURRENCY

\* ---------------------------------------------------------------------- C26
\* The rows behind the lines of the phone-oriented report of property p: the
\* classified documents with a non-empty field, parsed.
RECURSIVE C26_Emails(_)
C26_Emails(P) ==
    IF P = {} THEN 0
    ELSE LET p == CHOOSE q \in P : TRUE
             kept == SelectSeq(SelectSeq(DocsOf(p), is_booking_com_xml),
                               LAMBDA d : AnyField(parse_booking_info(d)))
         IN  (IF WritesFor(p) = <<>> THEN 0
              ELSE Cardinality({ i \in 1..Len(kept) : parse_booking_info(kept[i]).email # "" }))
             + C26_Emails(P \ {p})

RECURSIVE C26_Lines(_)
C26_Lines(P) ==
    IF P = {} THEN 0
    ELSE LET p == CHOOSE q \in P : TRUE
         IN  LinesIn(WritesFor(p)) + C26_Lines(P \ {p})

\* C26: once the phone-oriented builder has returned, total_rows is the sum
\* over the properties of the number of lines written for the property,
\* total_emails is the number of written rows whose email field is not empty,
\* and total_emails is at most total_rows.
C26_Totals ==
    (run_pc = "step4" /\ WordMode) =>
        /\ total_rows = C26_Lines(DOMAIN pms_to_name)
        /\ total_emails = C26_Emails(DOMAIN pms_to_name)
        /\ total_emails <= total_rows

\* Both properties have a report; one row is written without an email address,
\* so the email count is positive and below the row count.
C26_Witness ==
    /\ run_pc = "step4" /\ WordMode
    /\ \A p \in DOMAIN pms_to_name : LinesIn(WritesFor(p)) > 0
    /\ 0 < total_emails
    /\ total_emails < total_rows
    /\ total_rows >= 3

\* ---------------------------------------------------------------------- C27
\* Acquisition is over: every property pipeline has returned, every writer
\* has stopped, join() and gather() have returned and nothing holds a permit.
C27_Finished ==
    /\ orch = "step3"
    /\ \A p \in all_pms : pms[p].pc = "done"
    /\ \A w \in Workers : writer[w] = "stopped"
    /\ unfinished = 0 /\ write_queue = <<>>
    /\ sem_pms = PMS_CONCURRENCY /\ sem_token = TOKEN_CONCURRENCY

\* C27: with every request answered and every ready coroutine run, acquisition
\* ends from every reachable state: all pipelines completed, all writers
\* stopped, the join returned; until then some step can always be taken, so
\* sem_pms, sem_token (held by a producer suspended in put) and the bounded
\* queue never block each other for good.
C27_Terminates ==
    /\ [](~C27_Finished => ENABLED NextProgress)
    /\ (~C27_Finished ~> C27_Finished)

\* The queue is full, every permit of sem_pms is held while a property waits
\* for one, and the only task still running is suspended in put and holds a
\* permit of sem_token: only a writer can move.
C27_Witness ==
    /\ Full(write_queue)
    /\ sem_pms = 0
    /\ Cardinality({ p \in all_pms : pms[p].pc = "start" }) = 1
    /\ sem_token < TOKEN_CONCURRENCY
    /\ Cardinality({ pi \in TaskIds : fetch[pi[1]][pi[2]].pc = "put" }) = 1
    /\ \A pi \in TaskIds : fetch[pi[1]][pi[2]].pc \in { "put", "done" }

\* ---------------------------------------------------------------------- C28
C28_State ==
    /\ Len(r_sleeps) <= r_cfg.attempts - 1
    /\ \A k \in 1..Len(r_sleeps) :
          \E jit \in 0..r_cfg.jitter : r_sleeps[k] = r_cfg.base_delay * 2^(k - 1) + jit
    /\ r_pc = "request" => Len(r_sleeps) = r_i - 1 /\ r_requests = r_i - 1
    /\ r_pc = "sleep" => Len(r_sleeps) = r_i /\ r_requests = r_i
    /\ r_pc = "returned" => Len(r_sleeps) = r_requests - 1

C28_Step ==
    r_sleeps' # r_sleeps =>
        /\ r_pc = "request" /\ r_pc' = "sleep"
        /\ r_i < r_cfg.attempts
        /\ ~(r_last'.kind = "response" /\ StatusOk(r_last'.status))
        /\ Len(r_sleeps') = r_i
        /\ SubSeq(r_sleeps', 1, Len(r_sleeps)) = r_sleeps

\* C28: the k-th sleep of a call follows its k-th attempt, which did not
\* succeed and was not the last (k = 1 .. attempts-1), and lasts
\* base_delay * 2^(k-1) plus a jitter in [0, jitter]; there are as many sleeps
\* as attempts made before the current one, so none precedes the first
\* attempt, and the attempt the call returns on, the final one included, is
\* followed by none.
C28_Backoff == [](C28_State) /\ [][C28_Step]_vars

\* A booking-log call has failed on every attempt: four sleeps were taken,
\* the first with no jitter, the last with the whole jitter on eight times the
\* base delay, and none after the fifth attempt.
C28_Witness ==
    /\ r_pc = "returned" /\ r_result = "None"
    /\ r_cfg = BooklogCall
    /\ r_requests = BOOKLOG_RETRY_ATTEMPTS
    /\ Len(r_sleeps) = BOOKLOG_RETRY_ATTEMPTS - 1
    /\ r_sleeps[1] = BOOKLOG_BASE_DELAY
    /\ r_sleeps[4] = BOOKLOG_BASE_DELAY * 8 + BOOKLOG_JITTER

\* ---------------------------------------------------------------------- C29
\* C29: whatever list of rows the booking-log query returns, the tokens
\* fetched are the integer values of the rows that carry a numeric token, in
\* order ("2.0" gives 2): a row without one is dropped and the other rows of
\* the answer are still fetched; only an answer with no token at all makes the
\* property return 0 without fetching.
C29_TokenExtraction ==
    \A p \in all_pms, js \in BooklogPayloads :
        (pms[p].pc = "booklog" /\ js.list) =>
            LET good == Tokens(SelectSeq(js.rows, LAMBDA row : row.dict))
            IN  IF good = <<>>
                THEN ENABLED (/\ PmsBooklogOn(p, js)
                              /\ pms'[p] = [pc |-> "done", ret |-> 0, exc |-> FALSE])
                ELSE ENABLED (/\ PmsBooklogOn(p, js)
                              /\ pms'[p].pc = "gather"
                              /\ [i \in 1..Len(fetch'[p]) |-> fetch'[p][i].token] = good)

\* ---------------------------------------------------------------------- C30
\* The lines a report of property p holds when its persisted documents are
\* read in the lexicographic order of their file names.
C30_Lines(p) ==
    LET T == { k[2] : k \in { f \in DOMAIN files : f[1] = p } }
        byName == CHOOSE s \in [1..Cardinality(T) -> T] :
                      \A i, j \in 1..Cardinality(T) :
                          i < j => NameLess(Str(s[i]) \o ".xml", Str(s[j]) \o ".xml")
        docs == [i \in 1..Cardinality(T) |-> XmlText(p, files[<<p, byName[i]>>])]
    IN  IF WordMode
        THEN write_hotel_txt(p, pms_to_name[p], RowsOf(SelectSeq(docs, HotelKeeps))).lines
        ELSE write_hotel_emails_txt(p, pms_to_name[p],
                 SelectSeq(RowsOf(docs), LAMBDA r : EmailKeeps(Kind, r))).lines

\* C30: in the phone and email reports the lines of a property are those of
\* its persisted documents taken in the lexicographic order of the file
\* names <token>.xml, whatever the order of the rows in the booking log, of
\* the completion of the fetches and of the writes.
C30_ReportOrder ==
    (run_pc = "step4" /\ ~KadirMode) =>
        \A p \in DOMAIN pms_to_name :
            IF C30_Lines(p) = <<>> THEN WritesFor(p) = <<>>
            ELSE /\ Len(WritesFor(p)) = 1
                 /\ WritesFor(p)[1].lines = C30_Lines(p)

\* Property 2 had the tokens 2 and 10, fetched in that order: its phone report
\* has two lines, the first from 10.xml (the second request's document) and
\* the second from 2.xml.
C30_Witness ==
    /\ run_pc = "step4" /\ WordMode
    /\ { k \in DOMAIN files : k[1] = 2 } = { <<2, 2>>, <<2, 10>> }
    /\ files[<<2, 2>>] = Doc(1) /\ files[<<2, 10>>] = Doc(2)
    /\ Len(WritesFor(2)) = 1
    /\ WritesFor(2)[1].lines =
          << HotelLine(pms_to_name[2], parse_booking_info(XmlText(2, Doc(2)))),
             HotelLine(pms_to_name[2], parse_booking_info(XmlText(2, Doc(1)))) >>

\* ---------------------------------------------------------------------- C31
\* The distinct ids the labels of the run carry.
C31_Ids == { extract_pms_from_label(labels[i]) : i \in 1..Len(labels) } \ {0}

C31_State ==
    run_pc # "step1" =>
        /\ Len(pms_tasks) = Cardinality(C31_Ids)
        /\ { pms_tasks[i] : i \in 1..Len(pms_tasks) } = C31_Ids
        /\ \A i, j \in 1..Len(pms_tasks) : i < j => pms_tasks[i] < pms_tasks[j]
        /\ all_pms = C31_Ids
        /\ DOMAIN pms = C31_Ids
        /\ DOMAIN pms_to_name = C31_Ids

C31_Step ==
    \A p \in all_pms : pms[p].pc # "start" => pms'[p].pc # "start"

\* C31: the list the pipelines are created from holds each id that some label
\* carries exactly once, in ascending order, however many labels carry it;
\* there is one pipeline for each of these ids and none for anything else,
\* and a pipeline that has started never starts again.
C31_WorkingSet == [](C31_State) /\ [][C31_Step]_vars

\* Property 1 came in two labels, after property 2: the list is <<1, 2>>,
\* property 1 has the name of its later label and both pipelines have started.
C31_Witness ==
    /\ labels = <<" 2 - A?*B", "1 - A/B", "1-H">>
    /\ pms_tasks = <<1, 2>>
    /\ pms_to_name = (1 :> "H") @@ (2 :> "A?*B")
    /\ \A p \in all_pms : pms[p].pc # "start"

\* ---------------------------------------------------------------------- C32
C32_Phases == { "step1", "step2", "step3", "step4" }

C32_State ==
    (run_pc = "ended" /\ ended_by \in C32_Phases) =>
        /\ errors = <<ended_by>>
        /\ ~delivered

C32_Step ==
    failed \in C32_Phases =>
        /\ run_pc' \in { "send_error", "send_error_outer", "ended" }
        /\ failed' = failed
        /\ delivered' = delivered
        /\ reports' = reports

\* C32: a run in which a phase has failed ends with exactly one error message
\* sent, naming that phase; from the failure on no phase is entered and no
\* archive is delivered.
C32_PhaseFailure == [](C32_State) /\ [][C32_Step]_vars

\* ---------------------------------------------------------------------- C33
\* The task_done() calls made so far: one by each write, each failed write
\* and each worker that stopped.
C33_Acks == written + failed_writes + Cardinality(Stopped)

C33_State ==
    /\ unfinished = Len(write_queue)
    /\ C33_Acks + unfinished = FetchedOk + sentinels_put
    /\ orch \in { "gather", "step3" } =>
          /\ unfinished = 0
          /\ C33_Acks = FetchedOk + WRITERS

C33_Step ==
    Len(write_queue') < Len(write_queue) =>
        /\ write_queue' = Tail(write_queue)
        /\ unfinished' = unfinished - 1
        /\ IF Head(write_queue).none
           THEN /\ \E w \in Workers : /\ writer[w] = "run"
                                      /\ writer' = [writer EXCEPT ![w] = "stopped"]
                /\ written' = written /\ failed_writes' = failed_writes
           ELSE /\ writer' = writer
                /\ written' + failed_writes' = written + failed_writes + 1

\* C33: an item leaves the queue in the step of one worker, which takes the
\* head and acknowledges it once: a document is written or fails in that
\* worker and in no other, a None stops that worker alone; every item put is
\* in the queue or acknowledged, so after the drain the acknowledgements are
\* the documents enqueued plus WRITERS.
C33_ExactlyOnce == [](C33_State) /\ [][C33_Step]_vars

\* The queue has been joined after three documents and the two None items
\* were taken: five acknowledgements, both workers stopped.
C33_Witness ==
    /\ orch = "gather"
    /\ FetchedOk = 3
    /\ written + failed_writes = 3
    /\ C33_Acks = 3 + WRITERS
    /\ Stopped = Workers

\* ---------------------------------------------------------------------- C34
C34_State ==
    /\ sem_pms \in 0..PMS_CONCURRENCY
    /\ sem_token \in 0..TOKEN_CONCURRENCY
    /\ orch = "step3" => sem_pms = PMS_CONCURRENCY /\ sem_token = TOKEN_CONCURRENCY

C34_Step ==
    LET left == { p \in all_pms : pms[p].pc \in { "booklog", "gather" } /\ pms'[p].pc = "done" }
        entered == { p \in all_pms : pms[p].pc = "start" /\ pms'[p].pc # "start" }
        ended == { pi \in InFlight :
                     \/ pi[2] > Len(fetch'[pi[1]])
                     \/ fetch'[pi[1]][pi[2]].pc = "done" }
        begun == { pi \in TaskIds : /\ fetch[pi[1]][pi[2]].pc = "start"
                                    /\ pi[2] <= Len(fetch'[pi[1]])
                                    /\ fetch'[pi[1]][pi[2]].pc # "start" }
    IN  /\ sem_pms' = sem_pms + Cardinality(left) - Cardinality(entered)
        /\ sem_token' = sem_token + Cardinality(ended) - Cardinality(begun)

\* C34: a property that leaves "async with sem_pms" gives its permit back in
\* that step, whether it returns its saved count, returns 0 for an empty
\* booking log or an empty token list, or returns 0 from the except clause;
\* a fetch task that leaves "async with sem_token" gives its permit back,
\* whether it returns True or False; permits are taken only on entering a
\* block, and when acquisition has finished both semaphores are full.
C34_PermitsReturned == [](C34_State) /\ [][C34_Step]_vars

\* One property has left through the except clause, the other has spawned two
\* tasks of which one returned True and one False: the permit of the first
\* property and both permits of sem_token are back.
C34_Witness ==
    /\ \E p \in all_pms : pms[p].pc = "done" /\ pms[p].exc
    /\ \E p \in all_pms :
          /\ pms[p].pc = "gather"
          /\ \E i, j \in 1..Len(fetch[p]) :
                /\ fetch[p][i].pc = "done" /\ fetch[p][i].res
                /\ fetch[p][j].pc = "done" /\ ~fetch[p][j].res
    /\ sem_pms = PMS_CONCURRENCY - 1
    /\ sem_token = TOKEN_CONCURRENCY

\* ---------------------------------------------------------------------- C36
\* build_email_reports of the given kind, run on document d alone, keeps it.
C36_Kept(kind, p, d) ==
    build_email_reports(pms_to_name, (p :> <<d>>), kind, p).total_rows = 1

\* The documents of the run, as pairs of property and document.
C36_Docs == { pd \in (DOMAIN pms_to_name) \X DocKinds :
                \E i \in 1..Len(DocsOf(pd[1])) : DocsOf(pd[1])[i] = pd[2] }

\* C36: no document of a run is kept both by the email report of kind
\* "booking" and by that of kind "other", and a document whose email is empty
\* once trimmed is kept by neither; the file the run writes for a property has
\* one line per document its own kind keeps, so none for a document of the
\* other kind.
C36_KindsDisjoint ==
    /\ \A pd \in C36_Docs :
          /\ ~(C36_Kept("booking", pd[1], pd[2]) /\ C36_Kept("other", pd[1], pd[2]))
          /\ Strip(parse_booking_info(pd[2]).email) = "" =>
                ~C36_Kept("booking", pd[1], pd[2]) /\ ~C36_Kept("other", pd[1], pd[2])
    /\ (run_pc = "step4" /\ EmailMode) =>
          \A p \in DOMAIN pms_to_name :
             LinesIn(WritesFor(p)) =
                Cardinality({ i \in 1..Len(DocsOf(p)) : C36_Kept(Kind, p, DocsOf(p)[i]) })

\* A run of kind "other" over a relay address, which "booking" alone keeps, a
\* plain address, which "other" alone keeps, and an email of one space, which
\* neither keeps: the one line written is that of the plain address.
C36_Witness ==
    /\ run_pc = "step4" /\ EmailMode /\ Kind = "other"
    /\ \E pd \in C36_Docs : C36_Kept("booking", pd[1], pd[2]) /\ ~C36_Kept("other", pd[1], pd[2])
    /\ \E pd \in C36_Docs : C36_Kept("other", pd[1], pd[2]) /\ ~C36_Kept("booking", pd[1], pd[2])
    /\ \E pd \in C36_Docs :
          /\ pd[2].email # ""
          /\ Strip(parse_booking_info(pd[2]).email) = ""
          /\ ~C36_Kept("booking", pd[1], pd[2]) /\ ~C36_Kept("other", pd[1], pd[2])
    /\ LinesIn(report_writes) = 1

\* ---------------------------------------------------------------------- C35
\* The number of words of s: the places where a run of non-whitespace begins.
C35_Words(s) ==
    Cardinality({ i \in 1..Len(s) :
                    /\ Char(s, i) \notin Whitespace
                    /\ i = 1 \/ Char(s, i - 1) \in Whitespace })

\* Message m is a valid input of state st.
C35_Valid(st, m) ==
    LET text == Lower(Strip(m.text))
    IN  CASE st = "waiting_dates" -> C35_Words(m.text) = 2
          [] st = "waiting_choice" -> Contains(text, "nomera") \/ Contains(text, "pocht")
          [] st = "waiting_numbers_fmt" -> text \in { "word", "kadir" }
          [] st = "waiting_email_kind" ->
                Contains(text, "booking") \/ Contains(text, "ostalny")
          [] OTHER -> TRUE

\* What the data holds in state st: the inputs of the states passed so far.
C35_Keys(st) ==
    CASE st = "waiting_password" -> { "username" }
      [] st = "waiting_dates" -> { "username", "password" }
      [] st = "waiting_choice" -> { "username", "password", "date_from", "date_to" }
      [] st \in { "waiting_numbers_fmt", "waiting_email_kind" } ->
            { "username", "password", "date_from", "date_to", "parse_mode" }
      [] OTHER -> {}

C35_State == C35_Keys(state) \subseteq DOMAIN data

\* A state is entered from the state before it, by a valid input.
C35_Order ==
    state' # state =>
        \/ state' = "None"
        \/ state' = "waiting_username" /\ handled'.m.text = "/start"
        \/ state' = "waiting_password" /\ state = "waiting_username"
        \/ state' = "waiting_dates" /\ state = "waiting_password" /\ handled'.login = "ok"
        \/ /\ state' = "waiting_choice" /\ state = "waiting_dates"
           /\ C35_Valid(state, handled'.m)
        \/ /\ state' \in { "waiting_numbers_fmt", "waiting_email_kind" }
           /\ state = "waiting_choice"
           /\ C35_Valid(state, handled'.m)

\* A run is created in one of the two selection states, by a valid selection.
C35_Launch ==
    handled'.job # <<>> =>
        /\ state \in { "waiting_numbers_fmt", "waiting_email_kind" }
        /\ C35_Valid(state, handled'.m)
        /\ handled'.job[1] \in Modes

\* The state and the data are cleared by a failed login and by a launch.
C35_Cleared ==
    (handled'.login = "failed" \/ handled'.job # <<>>) =>
        state' = "None" /\ data' = [k \in {} |-> ""]

\* An invalid input changes nothing and creates no run.
C35_Invalid ==
    (/\ state \in { "waiting_dates", "waiting_choice", "waiting_numbers_fmt",
                    "waiting_email_kind" }
     /\ handled'.m.text # "/start"
     /\ ~C35_Valid(state, handled'.m)) =>
        state' = state /\ data' = data /\ handled'.job = <<>>

\* C35: whatever the updates of a chat, a run is created only in the
\* format-selection or email-kind-selection state by a valid selection; each
\* state is entered only from the one before it (/start, username, password
\* with a login that succeeded, two dates, mode choice); a failed login clears
\* the state; an invalid input in the date, choice, format or email-kind state
\* changes nothing and creates no run; the state is cleared once a run has
\* been created.
C35_Gating ==
    [](C35_State) /\ [][C35_Order /\ C35_Launch /\ C35_Invalid /\ C35_Cleared]_vars

=============================================================================
